---- MODULE Spec2Model ----
(***************************************************************************)
(* Model of the metric-alerter delivery pipeline.                           *)
(*                                                                         *)
(*   Spec       the agent's batch dispatcher: the samplers, the report     *)
(*              loop of main, the worker pool on the unbuffered job queue  *)
(*              and the shutdown sequence of main.                         *)
(*   SpecRetry  config.RetryWithBackoff with its three call sites          *)
(*              (database operation, RestySender.SendBatch,                *)
(*              GRPCSender.SendBatch).                                     *)
(*   SpecStore  repository.MemStorage called by concurrent goroutines      *)
(*              under its reader/writer lock.                              *)
(*   SpecServer one update request served by Handler.HandleUpdateJSON,     *)
(*              Handler.HandlerUpdateBatchJSON or                          *)
(*              MetricsService.UpdateMetrics, with repository.SyncToDB.    *)
(***************************************************************************)
EXTENDS Integers, Sequences, FiniteSets, TLC

VARIABLES
    \* ---- agent (cmd/agent main) ----
    cfgRateLimit,   \* the RateLimit value handed over by parseFlags
    rateLimit,      \* state.Config.RateLimit
    pc,             \* position of main
    worker,         \* worker[w]: position of worker goroutine w
    held,           \* held[w]: id of the batch worker w received (0: none)
    wg,             \* state.wg counter
    closed,         \* close(state.jobQueue) has run
    pending,        \* id of the batch main is blocked sending (0: none)
    sigPending,     \* a signal sits in sigChan
    pollCount,      \* state.Collector.pollCount
    sysMetrics,     \* collectSystemMetrics has stored at least one key
    pollCancelled,  \* pollCancel() has run
    sysCancelled,   \* sysCancel() has run
    pollExited,     \* the runtime sampler goroutine has returned
    sysExited,      \* the system sampler goroutine has returned
    built,          \* the non-empty batches built so far, id = index
    taken,          \* taken[id]: number of receives of batch id by workers
    calls,          \* calls[id]: number of SendBatch calls made with batch id
    returned,       \* returned[id]: number of SendBatch calls that returned
    enqueued,       \* ids whose channel send has completed
    sendErrs,       \* ids whose SendBatch call returned an error
    finalBuilt,     \* the shutdown branch has built its snapshot
    finalId,        \* id of the final batch (0: the final snapshot was empty)
    shutdownLog,    \* the phases of the shutdown branch, in order of completion
    \* ---- config.RetryWithBackoff ----
    caller,         \* which call site runs the helper
    script,         \* script[k]: what the k-th invocation of op meets
    rpc,            \* position inside RetryWithBackoff
    idx,            \* the loop index i (1-based)
    opCalls,        \* number of invocations of op
    opErrs,         \* the errors the invocations returned, in order
    lastErr,        \* lastErr
    waited,         \* the intervals that were waited out, in order
    ctxDone,        \* ctx.Done() is closed
    timerFired,     \* the time.After channel of the current wait is ready
    result,         \* the returned error (Nil: success)
    \* ---- repository.MemStorage ----
    gauge,          \* s.gauge: name -> value (in hundredths)
    counter,        \* s.counter: name -> value
    muWriter,       \* s.mu: the caller that holds the write lock (0: none)
    muReaders,      \* s.mu: the callers that hold the read lock
    spc,            \* spc[p]: position of caller p inside its method call
    sop,            \* sop[p]: the method call caller p is in, or made last
    sold,           \* sold[p]: the old value AddCounter loaded for += delta
    sres,           \* sres[p]: what the last call of caller p returned
    sseen,          \* sseen[p]: the completed writes when that call read
    scalls,         \* number of method calls started
    addedLog,       \* addedLog[n]: deltas of the completed AddCounter(n, _)
    setLog,         \* setLog[n]: values of the completed SetGauge(n, _)
    committed,      \* <<type, name, value>> left by a completed write call
    \* ---- the server's update handlers ----
    hkey,           \* h.key, the signing key ("": none)
    hdb,            \* h.db != nil
    dbTable,        \* the metrics table: id -> row
    hpc,            \* position of the handler
    req,            \* the request being served
    hidx,           \* index of the entry the loop is at
    hattempt,       \* number of transactions SyncToDB has run
    hsyncErr,       \* the error SyncToDB holds or returned (Nil: none)
    hresp,          \* the response written (NoResp: none yet)
    haudit,         \* the events handed to the audit manager, each its ids
    hlog,           \* what the handler has done, in order
    hstore0,        \* the store when the request arrived
    hdb0,           \* the table when the request arrived
    hinfos,         \* metrics: what SyncToDB's GetAll returned last
    \* ---- AuditManager (SpecAudit)
    observers,      \* AuditManager.observers, in attach order
    apc,            \* "off", "setup", "idle", "notify", "tail"
    apath,          \* the endpoint of the request being audited
    aidx,           \* the position of Notify's loop in observers
    aevents,        \* number of events handed to Notify so far
    acalls,         \* OnAuditEvent calls: [ev, obs, err], in order
    alogged,        \* "Audit observer error" log lines: [ev, obs]
    aresp,          \* the response the audited request has been given
    astore,         \* the store the audited handler writes
    astore0,        \* the store when the audited request arrived
    aop,            \* the last call on the manager: [op, o, before, ret]
    \* ---- grpcserver.IPSubnetInterceptor (SpecGate)
    gsubnet,        \* trustedSubnet: <<>> for nil, or <<[ip, bits]>>
    gpc,            \* "off", "idle", "intercept", "handler"
    gmd,            \* the call's metadata: <<>> for none, or <<values>>
    gentry,         \* the metric the call carries
    gcalls,         \* number of calls received
    ghandled,       \* whether the handler was invoked for the last call
    gresp,          \* the answer to the last call
    gstore,         \* the store the RPC handler writes
    gstore0,        \* the store when the last call arrived
    \* ---- RestySender.SendBatch (SpecSend)
    rsKey,          \* rs.Key, "" for none
    rsCryptoKey,    \* whether rs.CryptoKey is set
    rsServerKey,    \* the key of the server the batches are posted to
    bufPool,        \* the buffers bufPool holds
    gzipPool,       \* the writers gzipPool holds
    poolMade,       \* how many objects each pool's New has made
    rsCall,         \* per caller: the SendBatch call it is in
    rsStarted,      \* number of SendBatch calls begun
    \* ---- the snapshot file: routes, SaveMetricsToFile, LoadMetricsFromFile
    storeInterval,  \* seconds between saves, 0 for a save after each update
    fpc,            \* "off", "serving", "saving", "saved", "stopped", "restored", "loading"
    fstore,         \* the server's store
    ffile,          \* the snapshot file
    fmuts,          \* number of update requests served
    frestored,      \* the store of the restarted server after the load
    fsaved,         \* the store read by the save that wrote the file last
    fsavers,        \* per goroutine: the SaveMetricsToFile call it is in
    \* ---- update requests served at the same time (SpecSync)
    syncCall,       \* per request: its position, update, snapshot, answer
    \* ---- the agent's MetricsCollector under its lock (SpecCollector)
    cmu,            \* Collector.mu: [writer, readers]
    cmetrics,       \* Collector.metrics: key -> [type, value]
    cpc,            \* positions of the two samplers and of main, builds made
    cbatch,         \* the batch buildBatchSnapshot is filling, or has returned
    csend,          \* the SendBatch call in progress: <<>> or <<[call, batch,
                    \* posts, ok]>>
    cnet,           \* the POST requests on their way to the server
    cdelivered,     \* the last batch whose SendBatch call returned nil
    srvCounter      \* the counters of the server the batches are posted to

agentVars == <<cfgRateLimit, rateLimit, pc, worker, held, wg, closed, pending,
               sigPending, pollCount, sysMetrics, pollCancelled, sysCancelled,
               pollExited, sysExited, built, taken, calls, returned, enqueued,
               sendErrs, finalBuilt, finalId, shutdownLog>>

retryVars == <<caller, script, rpc, idx, opCalls, opErrs, lastErr, waited,
               ctxDone, timerFired, result>>

storeVars == <<gauge, counter, muWriter, muReaders, spc, sop, sold, sres,
               sseen, scalls, addedLog, setLog, committed>>

serverVars == <<hkey, hdb, dbTable, hpc, req, hidx, hattempt, hsyncErr, hresp,
                haudit, hlog, hstore0, hdb0, hinfos>>

auditVars == <<observers, apc, apath, aidx, aevents, acalls, alogged, aresp,
               astore, astore0, aop>>

gateVars == <<gsubnet, gpc, gmd, gentry, gcalls, ghandled, gresp, gstore,
              gstore0>>

sendVars == <<rsKey, rsCryptoKey, rsServerKey, bufPool, gzipPool, poolMade,
              rsCall, rsStarted>>

fileVars == <<storeInterval, fpc, fstore, ffile, fmuts, frestored, fsaved,
              fsavers>>

syncVars == <<syncCall>>

deliveryVars == <<csend, cnet, cdelivered, srvCounter>>

collectorVars == <<cmu, cmetrics, cpc, cbatch, deliveryVars>>

vars == <<agentVars, retryVars, storeVars, serverVars, auditVars, gateVars,
          sendVars, fileVars, syncVars, collectorVars>>

\* what a specification leaves alone
notAgent == <<retryVars, storeVars, serverVars, auditVars, gateVars, sendVars,
              fileVars, syncVars, collectorVars>>

notRetry == <<agentVars, storeVars, serverVars, auditVars, gateVars, sendVars,
              fileVars, syncVars, collectorVars>>

notStore == <<agentVars, retryVars, serverVars, auditVars, gateVars, sendVars,
              fileVars, syncVars, collectorVars>>

\* the server's handlers write the store's maps through its methods
notServer == <<agentVars, retryVars, muWriter, muReaders, spc, sop, sold, sres,
               sseen, scalls, addedLog, setLog, committed, auditVars,
               gateVars, sendVars, fileVars, syncVars, collectorVars>>

notAudit == <<agentVars, retryVars, storeVars, serverVars, gateVars, sendVars,
              fileVars, syncVars, collectorVars>>

notGate == <<agentVars, retryVars, storeVars, serverVars, auditVars, sendVars,
             fileVars, syncVars, collectorVars>>

notSend == <<agentVars, retryVars, storeVars, serverVars, auditVars, gateVars,
             fileVars, syncVars, collectorVars>>

notFile == <<agentVars, retryVars, storeVars, serverVars, auditVars, gateVars,
             sendVars, syncVars, collectorVars>>

\* concurrent requests write the store's maps and the metrics table
notSync == <<agentVars, retryVars, muWriter, muReaders, spc, sop, sold, sres,
             sseen, scalls, addedLog, setLog, committed, hkey, hdb, hpc, req,
             hidx, hattempt, hsyncErr, hresp, haudit, hlog, hstore0, hdb0,
             hinfos,
             auditVars, gateVars, sendVars, fileVars, collectorVars>>

\* the collector's goroutines count the passes in pollCount
notCollector == <<cfgRateLimit, rateLimit, pc, worker, held, wg, closed,
                  pending, sigPending, sysMetrics, pollCancelled,
                  sysCancelled, pollExited, sysExited, built, taken, calls,
                  returned, enqueued, sendErrs, finalBuilt, finalId,
                  shutdownLog, retryVars, storeVars, serverVars,
                  auditVars, gateVars, sendVars, fileVars, syncVars>>

\* ------------------------------------------------------------------ bounds
MaxRateLimit == 2
MaxBatches == 2
MaxPolls == 1
MaxScript == 4
MaxCallers == 2
MaxStoreCalls == 3
MaxEntries == 3
MaxEvents == 2
MaxRPCs == 2
MaxSends == 2
MaxUpdates == 2
MaxObservers == 4
MaxShutdownRate == 1
MaxShutdownReports == 1
MaxPasses == 1
MaxBuilds == 2
MaxLoads == 2
MaxPosts == 2

\* ---- maps
\* make(map[string]float64), make(map[string]int64)
EmptyMap == [x \in {} |-> 0]

\* m[name] = v
MapSet(m, n, v) == [x \in DOMAIN m \cup {n} |-> IF x = n THEN v ELSE m[x]]

\* the value a map read yields: the zero value for an absent key
Load(m, n) == IF n \in DOMAIN m THEN m[n] ELSE 0

\* =========================================================================
\* config.RetryWithBackoff
\* =========================================================================

\* Errors are chains of layers, outermost first; the nil error is the empty
\* chain.  A layer is a message, a *pgconn.PgError with its SQLSTATE code (a
\* tuple of characters), a transport error, or a context error.
Nil == <<>>

Layer(t, s, code) == [t |-> t, s |-> s, code |-> code]

Msg(s) == Layer("msg", s, <<>>)

PgError(code) == <<Layer("pg", "", code)>>

\* fmt.Errorf("...: %w", err)
Wrap(s, err) == <<Msg(s)>> \o err

CtxErr == <<Layer("ctx", "context canceled", <<>>)>>

\* fault variant: a schedule of two steps
retryIntervals_TwoSteps == <<1, 5>>

retryIntervals == <<1, 3, 5>>

\* errors.As(err, &pgErr): the first *pgconn.PgError of the chain
HasPgError(err) == \E k \in 1..Len(err) : err[k].t = "pg"

FirstPgError(err) == err[CHOOSE k \in 1..Len(err) :
                            /\ err[k].t = "pg"
                            /\ \A j \in 1..(k - 1) : err[j].t # "pg"]

\* fault variant: every database error is retried, whatever its SQLSTATE
isRetriableError_AnyPgError(err) == HasPgError(err)

isRetriableError(err) ==
    /\ HasPgError(err)
    /\ Len(FirstPgError(err).code) >= 2
    /\ SubSeq(FirstPgError(err).code, 1, 2) = <<"0", "8">>

\* ---- what one invocation of op meets: the driver's or transport's answer
StatusOK == 200

Raw(err, status) == [err |-> err, status |-> status]

RawDirect == { Raw(Nil, 0),
               Raw(PgError(<<"0", "8", "0", "0", "6">>), 0),
               Raw(PgError(<<"2", "3", "5", "0", "5">>), 0),
               Raw(PgError(<<"0">>), 0),
               Raw(Wrap("failed to begin transaction",
                        PgError(<<"0", "8", "0", "0", "3">>)), 0),
               Raw(<<Msg("fatal")>>, 0) }

RawHTTP == { Raw(Nil, 200), Raw(Nil, 204), Raw(Nil, 500),
             Raw(<<Layer("net", "connection refused", <<>>)>>, 0) }

RawGRPC == { Raw(Nil, 0), Raw(<<Layer("rpc", "unavailable", <<>>)>>, 0) }

RawOf(c) == CASE c = "direct" -> RawDirect
              [] c = "http"   -> RawHTTP
              [] c = "grpc"   -> RawGRPC

\* the closure RestySender.SendBatch hands to RetryWithBackoff
OpHTTP(raw) ==
    IF raw.err # Nil THEN Wrap("failed to POST metrics batch", raw.err)
    ELSE IF raw.status # StatusOK THEN <<Msg("unexpected status")>>
    ELSE Nil

\* the closure GRPCSender.SendBatch hands to RetryWithBackoff
OpGRPC(raw) ==
    IF raw.err # Nil THEN Wrap("failed to send metrics via gRPC", raw.err)
    ELSE Nil

\* an op that returns the driver's error as it is (InitDB's Ping, the tests)
OpDirect(raw) == raw.err

Op(c, raw) == CASE c = "direct" -> OpDirect(raw)
                [] c = "http"   -> OpHTTP(raw)
                [] c = "grpc"   -> OpGRPC(raw)

RetryUnchanged == UNCHANGED <<caller, script>>

\* fault variant: a nil result does not return, the loop goes on
RetryAttempt_ContinueOnSuccess ==
    /\ rpc = "loop"
    /\ LET err == Op(caller, script[opCalls + 1]) IN
         /\ opCalls' = opCalls + 1
         /\ opErrs' = Append(opErrs, err)
         /\ IF err # Nil /\ ~isRetriableError(err)
              THEN /\ rpc' = "done"
                   /\ result' = err
                   /\ UNCHANGED <<lastErr, timerFired>>
              ELSE /\ lastErr' = err
                   /\ rpc' = "select"
                   /\ timerFired' = FALSE
                   /\ UNCHANGED result
    /\ UNCHANGED <<idx, waited, ctxDone>>
    /\ RetryUnchanged

\* One pass of the loop body up to the select or a return: op is invoked; nil
\* returns nil, a retriable error is kept in lastErr and the helper goes to the
\* select, any other error is returned as it is.
RetryAttempt ==
    /\ rpc = "loop"
    /\ LET err == Op(caller, script[opCalls + 1]) IN
         /\ opCalls' = opCalls + 1
         /\ opErrs' = Append(opErrs, err)
         /\ IF err = Nil
              THEN /\ rpc' = "done"
                   /\ result' = Nil
                   /\ UNCHANGED <<lastErr, timerFired>>
              ELSE IF isRetriableError(err)
              THEN /\ lastErr' = err
                   /\ rpc' = "select"
                   /\ timerFired' = FALSE
                   /\ UNCHANGED result
              ELSE /\ rpc' = "done"
                   /\ result' = err
                   /\ UNCHANGED <<lastErr, timerFired>>
    /\ UNCHANGED <<idx, waited, ctxDone>>
    /\ RetryUnchanged

\* time.After(wait) becomes ready
TimerFire ==
    /\ rpc = "select"
    /\ ~timerFired
    /\ timerFired' = TRUE
    /\ UNCHANGED <<rpc, idx, opCalls, opErrs, lastErr, waited, ctxDone,
                   result>>
    /\ RetryUnchanged

\* the caller cancels ctx, or its deadline passes
CtxCancel ==
    /\ rpc \in {"loop", "select"}
    /\ ~ctxDone
    /\ ctxDone' = TRUE
    /\ UNCHANGED <<rpc, idx, opCalls, opErrs, lastErr, waited, timerFired,
                   result>>
    /\ RetryUnchanged

\* fault variant: the Done case returns lastErr instead of ctx.Err()
RetrySelectDone_ReturnLastErr ==
    /\ rpc = "select"
    /\ ctxDone
    /\ rpc' = "done"
    /\ result' = lastErr
    /\ UNCHANGED <<idx, opCalls, opErrs, lastErr, waited, ctxDone, timerFired>>
    /\ RetryUnchanged

\* select, case <-ctx.Done(): return ctx.Err()
RetrySelectDone ==
    /\ rpc = "select"
    /\ ctxDone
    /\ rpc' = "done"
    /\ result' = CtxErr
    /\ UNCHANGED <<idx, opCalls, opErrs, lastErr, waited, ctxDone, timerFired>>
    /\ RetryUnchanged

\* fault variant: on exhaustion the first attempt's error is wrapped
RetrySelectTimer_WrapsFirst ==
    /\ rpc = "select"
    /\ timerFired
    /\ waited' = Append(waited, retryIntervals[idx])
    /\ idx' = idx + 1
    /\ IF idx + 1 > Len(retryIntervals)
         THEN /\ rpc' = "done"
              /\ result' = Wrap("operation failed after retries", opErrs[1])
         ELSE /\ rpc' = "loop"
              /\ UNCHANGED result
    /\ UNCHANGED <<opCalls, opErrs, lastErr, ctxDone, timerFired>>
    /\ RetryUnchanged

\* select, case <-time.After(wait): continue; when the range is exhausted the
\* loop ends and the wrapped lastErr is returned
RetrySelectTimer ==
    /\ rpc = "select"
    /\ timerFired
    /\ waited' = Append(waited, retryIntervals[idx])
    /\ idx' = idx + 1
    /\ IF idx + 1 > Len(retryIntervals)
         THEN /\ rpc' = "done"
              /\ result' = Wrap("operation failed after retries", lastErr)
         ELSE /\ rpc' = "loop"
              /\ UNCHANGED result
    /\ UNCHANGED <<opCalls, opErrs, lastErr, ctxDone, timerFired>>
    /\ RetryUnchanged

RetryStart(c, sc) ==
    /\ caller = c
    /\ script = sc
    /\ rpc = "loop"
    /\ idx = 1
    /\ opCalls = 0
    /\ opErrs = <<>>
    /\ lastErr = Nil
    /\ waited = <<>>
    /\ ctxDone = FALSE
    /\ timerFired = FALSE
    /\ result = Nil

\* the helper is not running (the dispatcher's specification)
RetryParked ==
    /\ caller = "direct"
    /\ script = <<Raw(Nil, 0)>>
    /\ rpc = "idle"
    /\ idx = 1
    /\ opCalls = 0
    /\ opErrs = <<>>
    /\ lastErr = Nil
    /\ waited = <<>>
    /\ ctxDone = FALSE
    /\ timerFired = FALSE
    /\ result = Nil

\* =========================================================================
\* The agent: samplers, report loop, worker pool, shutdown
\* =========================================================================

Workers == 1..Len(worker)

Ids == 1..Len(built)

\* len(buildBatchSnapshot(state)) == 0: the collector's map has no key yet
SnapshotEmpty == pollCount = 0 /\ ~sysMetrics

\* buildBatchSnapshot: the entries of the collector's map under the read lock
buildBatchSnapshot(final) ==
    [poll |-> pollCount, sys |-> sysMetrics, final |-> final]

\* a new batch gets the next id and its bookkeeping
Record(batch) ==
    /\ built' = Append(built, batch)
    /\ taken' = Append(taken, 0)
    /\ calls' = Append(calls, 0)
    /\ returned' = Append(returned, 0)

\* fault variant: RateLimit <= 0 is not raised to 1
startWorkerPool_NoMinimum ==
    /\ pc = "start"
    /\ rateLimit' = cfgRateLimit
    /\ worker' = [w \in 1..(IF cfgRateLimit < 0 THEN 0 ELSE cfgRateLimit) |-> "idle"]
    /\ held' = [w \in 1..(IF cfgRateLimit < 0 THEN 0 ELSE cfgRateLimit) |-> 0]
    /\ wg' = (IF cfgRateLimit < 0 THEN 0 ELSE cfgRateLimit)
    /\ pc' = "loop"
    /\ UNCHANGED <<cfgRateLimit, closed, pending, sigPending, pollCount,
                   sysMetrics, pollCancelled, sysCancelled, pollExited,
                   sysExited, built, taken, calls, returned, enqueued,
                   sendErrs, finalBuilt, finalId, shutdownLog>>

\* startWorkerPool: RateLimit <= 0 becomes 1; RateLimit workers are started,
\* each counted in the wait group, each blocked receiving from the job queue
startWorkerPool ==
    /\ pc = "start"
    /\ LET n == IF cfgRateLimit <= 0 THEN 1 ELSE cfgRateLimit IN
         /\ rateLimit' = n
         /\ worker' = [w \in 1..n |-> "idle"]
         /\ held' = [w \in 1..n |-> 0]
         /\ wg' = n
    /\ pc' = "loop"
    /\ UNCHANGED <<cfgRateLimit, closed, pending, sigPending, pollCount,
                   sysMetrics, pollCancelled, sysCancelled, pollExited,
                   sysExited, built, taken, calls, returned, enqueued,
                   sendErrs, finalBuilt, finalId, shutdownLog>>

\* the runtime sampler's tick: collectMetrics, under the collector's lock
collectMetrics ==
    /\ pc # "start"
    /\ ~pollExited
    /\ pollCount < MaxPolls
    /\ pollCount' = pollCount + 1
    /\ UNCHANGED <<cfgRateLimit, rateLimit, pc, worker, held, wg, closed,
                   pending, sigPending, sysMetrics, pollCancelled,
                   sysCancelled, pollExited, sysExited, built, taken, calls,
                   returned, enqueued, sendErrs, finalBuilt, finalId,
                   shutdownLog>>

\* the system sampler's tick: collectSystemMetrics; a failed sub-sample leaves
\* its keys out
collectSystemMetrics ==
    /\ pc # "start"
    /\ ~sysExited
    /\ \E ok \in BOOLEAN : sysMetrics' = (sysMetrics \/ ok)
    /\ UNCHANGED <<cfgRateLimit, rateLimit, pc, worker, held, wg, closed,
                   pending, sigPending, pollCount, pollCancelled, sysCancelled,
                   pollExited, sysExited, built, taken, calls, returned,
                   enqueued, sendErrs, finalBuilt, finalId, shutdownLog>>

\* a sampler goroutine takes case <-ctx.Done() and returns
pollExit ==
    /\ pollCancelled
    /\ ~pollExited
    /\ pollExited' = TRUE
    /\ UNCHANGED <<cfgRateLimit, rateLimit, pc, worker, held, wg, closed,
                   pending, sigPending, pollCount, sysMetrics, pollCancelled,
                   sysCancelled, sysExited, built, taken, calls, returned,
                   enqueued, sendErrs, finalBuilt, finalId, shutdownLog>>

sysExit ==
    /\ sysCancelled
    /\ ~sysExited
    /\ sysExited' = TRUE
    /\ UNCHANGED <<cfgRateLimit, rateLimit, pc, worker, held, wg, closed,
                   pending, sigPending, pollCount, sysMetrics, pollCancelled,
                   sysCancelled, pollExited, built, taken, calls, returned,
                   enqueued, sendErrs, finalBuilt, finalId, shutdownLog>>

\* SIGTERM, SIGINT or SIGQUIT arrives in sigChan
signal ==
    /\ pc \in {"loop", "enqueue"}
    /\ ~sigPending
    /\ sigPending' = TRUE
    /\ UNCHANGED <<cfgRateLimit, rateLimit, pc, worker, held, wg, closed,
                   pending, pollCount, sysMetrics, pollCancelled, sysCancelled,
                   pollExited, sysExited, built, taken, calls, returned,
                   enqueued, sendErrs, finalBuilt, finalId, shutdownLog>>

\* main, case <-reportTicker.C: build the snapshot; an empty one is skipped,
\* otherwise main starts the send on the job queue
reportTick ==
    /\ pc = "loop"
    /\ Len(built) < MaxBatches
    /\ IF SnapshotEmpty
         THEN UNCHANGED <<pc, pending, built, taken, calls, returned>>
         ELSE /\ Record(buildBatchSnapshot(FALSE))
              /\ pending' = Len(built) + 1
              /\ pc' = "enqueue"
    /\ UNCHANGED <<cfgRateLimit, rateLimit, worker, held, wg, closed,
                   sigPending, pollCount, sysMetrics, pollCancelled,
                   sysCancelled, pollExited, sysExited, enqueued, sendErrs,
                   finalBuilt, finalId, shutdownLog>>

\* The job queue is unbuffered (make(chan []models.Metrics)): main's send
\* completes in the step in which a worker blocked in its range receive takes
\* the batch.
handoff(w) ==
    /\ pc \in {"enqueue", "finalEnqueue"}
    /\ pending # 0
    /\ ~closed
    /\ worker[w] = "idle"
    /\ worker' = [worker EXCEPT ![w] = "received"]
    /\ held' = [held EXCEPT ![w] = pending]
    /\ taken' = [taken EXCEPT ![pending] = @ + 1]
    /\ enqueued' = enqueued \cup {pending}
    /\ pending' = 0
    /\ IF pc = "enqueue"
         THEN pc' = "loop" /\ UNCHANGED shutdownLog
         ELSE pc' = "cancel" /\ shutdownLog' = Append(shutdownLog, "final")
    /\ UNCHANGED <<cfgRateLimit, rateLimit, wg, closed, sigPending, pollCount,
                   sysMetrics, pollCancelled, sysCancelled, pollExited,
                   sysExited, built, calls, returned, sendErrs, finalBuilt,
                   finalId>>

\* fault variant: the send runs detached and the worker receives again at once
workerSend_Async(w) ==
    /\ worker[w] = "received"
    /\ worker' = [worker EXCEPT ![w] = "idle"]
    /\ held' = [held EXCEPT ![w] = 0]
    /\ calls' = [calls EXCEPT ![held[w]] = @ + 1]
    /\ UNCHANGED <<cfgRateLimit, rateLimit, pc, wg, closed, pending,
                   sigPending, pollCount, sysMetrics, pollCancelled,
                   sysCancelled, pollExited, sysExited, built, taken, returned,
                   enqueued, sendErrs, finalBuilt, finalId, shutdownLog>>

\* the worker calls state.Sender.SendBatch(batch)
workerSend(w) ==
    /\ worker[w] = "received"
    /\ worker' = [worker EXCEPT ![w] = "sending"]
    /\ calls' = [calls EXCEPT ![held[w]] = @ + 1]
    /\ UNCHANGED <<cfgRateLimit, rateLimit, pc, held, wg, closed, pending,
                   sigPending, pollCount, sysMetrics, pollCancelled,
                   sysCancelled, pollExited, sysExited, built, taken, returned,
                   enqueued, sendErrs, finalBuilt, finalId, shutdownLog>>

\* fault variant: a failed batch is sent again by the worker
sendBatchReturn_ResendOnError(w) ==
    /\ worker[w] = "sending"
    /\ \E failed \in BOOLEAN :
         /\ worker' = [worker EXCEPT ![w] = IF failed THEN "received" ELSE "idle"]
         /\ held' = [held EXCEPT ![w] = IF failed THEN @ ELSE 0]
         /\ sendErrs' = IF failed THEN sendErrs \cup {held[w]} ELSE sendErrs
    /\ returned' = [returned EXCEPT ![held[w]] = @ + 1]
    /\ UNCHANGED <<cfgRateLimit, rateLimit, pc, wg, closed, pending,
                   sigPending, pollCount, sysMetrics, pollCancelled,
                   sysCancelled, pollExited, sysExited, built, taken, calls,
                   enqueued, finalBuilt, finalId, shutdownLog>>

\* fault variant: a worker whose SendBatch call failed returns
sendBatchReturn_ExitOnError(w) ==
    /\ worker[w] = "sending"
    /\ \E failed \in BOOLEAN :
         /\ sendErrs' = IF failed THEN sendErrs \cup {held[w]} ELSE sendErrs
         /\ worker' = [worker EXCEPT ![w] = IF failed THEN "exited" ELSE "idle"]
         /\ wg' = IF failed THEN wg - 1 ELSE wg
    /\ held' = [held EXCEPT ![w] = 0]
    /\ returned' = [returned EXCEPT ![held[w]] = @ + 1]
    /\ UNCHANGED <<cfgRateLimit, rateLimit, pc, closed, pending, sigPending,
                   pollCount, sysMetrics, pollCancelled, sysCancelled,
                   pollExited, sysExited, built, taken, calls, enqueued,
                   finalBuilt, finalId, shutdownLog>>

\* SendBatch returns; an error is logged and the worker goes back to its
\* range receive
sendBatchReturn(w) ==
    /\ worker[w] = "sending"
    /\ \E failed \in BOOLEAN :
         /\ sendErrs' = IF failed THEN sendErrs \cup {held[w]} ELSE sendErrs
    /\ worker' = [worker EXCEPT ![w] = "idle"]
    /\ held' = [held EXCEPT ![w] = 0]
    /\ returned' = [returned EXCEPT ![held[w]] = @ + 1]
    /\ UNCHANGED <<cfgRateLimit, rateLimit, pc, wg, closed, pending,
                   sigPending, pollCount, sysMetrics, pollCancelled,
                   sysCancelled, pollExited, sysExited, built, taken, calls,
                   enqueued, finalBuilt, finalId, shutdownLog>>

\* fault variant: the worker returns without state.wg.Done()
workerExit_NoDone(w) ==
    /\ worker[w] = "idle"
    /\ closed
    /\ worker' = [worker EXCEPT ![w] = "exited"]
    /\ wg' = wg
    /\ UNCHANGED <<cfgRateLimit, rateLimit, pc, held, closed, pending,
                   sigPending, pollCount, sysMetrics, pollCancelled,
                   sysCancelled, pollExited, sysExited, built, taken, calls,
                   returned, enqueued, sendErrs, finalBuilt, finalId,
                   shutdownLog>>

\* the range over the closed, empty queue ends: deferred state.wg.Done()
workerExit(w) ==
    /\ worker[w] = "idle"
    /\ closed
    /\ worker' = [worker EXCEPT ![w] = "exited"]
    /\ wg' = wg - 1
    /\ UNCHANGED <<cfgRateLimit, rateLimit, pc, held, closed, pending,
                   sigPending, pollCount, sysMetrics, pollCancelled,
                   sysCancelled, pollExited, sysExited, built, taken, calls,
                   returned, enqueued, sendErrs, finalBuilt, finalId,
                   shutdownLog>>

\* fault variant: the queue is closed before the final batch is sent on it
shutdownFinal_CloseBeforeSend ==
    /\ pc = "loop"
    /\ sigPending
    /\ sigPending' = FALSE
    /\ finalBuilt' = TRUE
    /\ closed' = TRUE
    /\ IF SnapshotEmpty
         THEN /\ finalId' = 0
              /\ pc' = "cancel"
              /\ shutdownLog' = Append(shutdownLog, "final")
              /\ UNCHANGED <<pending, built, taken, calls, returned>>
         ELSE /\ Record(buildBatchSnapshot(TRUE))
              /\ finalId' = Len(built) + 1
              /\ pending' = Len(built) + 1
              /\ pc' = "finalEnqueue"
              /\ UNCHANGED shutdownLog
    /\ UNCHANGED <<cfgRateLimit, rateLimit, worker, held, wg,
                   pollCount, sysMetrics, pollCancelled, sysCancelled,
                   pollExited, sysExited, enqueued, sendErrs>>

\* main, case sig := <-sigChan: the final snapshot is built and, unless it is
\* empty, main starts sending it on the job queue
shutdownFinal ==
    /\ pc = "loop"
    /\ sigPending
    /\ sigPending' = FALSE
    /\ finalBuilt' = TRUE
    /\ IF SnapshotEmpty
         THEN /\ finalId' = 0
              /\ pc' = "cancel"
              /\ shutdownLog' = Append(shutdownLog, "final")
              /\ UNCHANGED <<pending, built, taken, calls, returned>>
         ELSE /\ Record(buildBatchSnapshot(TRUE))
              /\ finalId' = Len(built) + 1
              /\ pending' = Len(built) + 1
              /\ pc' = "finalEnqueue"
              /\ UNCHANGED shutdownLog
    /\ UNCHANGED <<cfgRateLimit, rateLimit, worker, held, wg, closed,
                   pollCount, sysMetrics, pollCancelled, sysCancelled,
                   pollExited, sysExited, enqueued, sendErrs>>

\* fault variant: the queue is closed where the timers should be cancelled
shutdownCancel_CloseFirst ==
    /\ pc = "cancel"
    /\ closed' = TRUE
    /\ shutdownLog' = Append(shutdownLog, "close")
    /\ pc' = "close"
    /\ UNCHANGED <<cfgRateLimit, rateLimit, worker, held, wg, pending,
                   sigPending, pollCount, sysMetrics, pollCancelled,
                   sysCancelled, pollExited, sysExited, built, taken, calls,
                   returned, enqueued, sendErrs, finalBuilt, finalId>>

\* pollCancel(); sysCancel()
shutdownCancel ==
    /\ pc = "cancel"
    /\ pollCancelled' = TRUE
    /\ sysCancelled' = TRUE
    /\ shutdownLog' = Append(shutdownLog, "cancel")
    /\ pc' = "close"
    /\ UNCHANGED <<cfgRateLimit, rateLimit, worker, held, wg, closed, pending,
                   sigPending, pollCount, sysMetrics, pollExited, sysExited,
                   built, taken, calls, returned, enqueued, sendErrs,
                   finalBuilt, finalId>>

\* close(state.jobQueue)
shutdownClose ==
    /\ pc = "close"
    /\ closed' = TRUE
    /\ shutdownLog' = Append(shutdownLog, "close")
    /\ pc' = "wait"
    /\ UNCHANGED <<cfgRateLimit, rateLimit, worker, held, wg, pending,
                   sigPending, pollCount, sysMetrics, pollCancelled,
                   sysCancelled, pollExited, sysExited, built, taken, calls,
                   returned, enqueued, sendErrs, finalBuilt, finalId>>

\* fault variant: main returns without waiting for the workers
shutdownWait_NoWait ==
    /\ pc = "wait"
    /\ shutdownLog' = Append(shutdownLog, "drained")
    /\ pc' = "done"
    /\ UNCHANGED <<cfgRateLimit, rateLimit, worker, held, wg, closed, pending,
                   sigPending, pollCount, sysMetrics, pollCancelled,
                   sysCancelled, pollExited, sysExited, built, taken, calls,
                   returned, enqueued, sendErrs, finalBuilt, finalId>>

\* state.wg.Wait() returns once the counter is zero; the sender is closed and
\* main returns
shutdownWait ==
    /\ pc = "wait"
    /\ wg = 0
    /\ shutdownLog' = Append(shutdownLog, "drained")
    /\ pc' = "done"
    /\ UNCHANGED <<cfgRateLimit, rateLimit, worker, held, wg, closed, pending,
                   sigPending, pollCount, sysMetrics, pollCancelled,
                   sysCancelled, pollExited, sysExited, built, taken, calls,
                   returned, enqueued, sendErrs, finalBuilt, finalId>>

AgentStart(rl) ==
    /\ cfgRateLimit = rl
    /\ rateLimit = rl
    /\ pc = "start"
    /\ worker = <<>>
    /\ held = <<>>
    /\ wg = 0
    /\ closed = FALSE
    /\ pending = 0
    /\ sigPending = FALSE
    /\ pollCount = 0
    /\ sysMetrics = FALSE
    /\ pollCancelled = FALSE
    /\ sysCancelled = FALSE
    /\ pollExited = FALSE
    /\ sysExited = FALSE
    /\ built = <<>>
    /\ taken = <<>>
    /\ calls = <<>>
    /\ returned = <<>>
    /\ enqueued = {}
    /\ sendErrs = {}
    /\ finalBuilt = FALSE
    /\ finalId = 0
    /\ shutdownLog = <<>>

\* =========================================================================
\* repository.MemStorage
\* =========================================================================

Callers == 1..MaxCallers

Names == {"m1", "m2"}

\* a float64 value is held as its number of hundredths: 250 is 2.5
GaugeValues == {250, -5}

Deltas == {7, -3}

\* ---- strconv: a text is a tuple of characters
DigitChar(d) == <<"0", "1", "2", "3", "4", "5", "6", "7", "8", "9">>[d + 1]

RECURSIVE Digits(_)
Digits(n) == IF n < 10 THEN <<DigitChar(n)>>
             ELSE Digits(n \div 10) \o <<DigitChar(n % 10)>>

Sign(v) == IF v < 0 THEN <<"-">> ELSE <<>>

Abs(v) == IF v < 0 THEN -v ELSE v

\* strconv.FormatInt(v, 10)
FormatInt(v) == Sign(v) \o Digits(Abs(v))

\* strconv.FormatFloat(v, 'f', -1, 64): the shortest decimal text, no exponent
FormatFloat(h) ==
    LET fp == Abs(h) % 100
        frac == IF fp = 0 THEN <<>>
                ELSE IF fp % 10 = 0 THEN <<".", DigitChar(fp \div 10)>>
                ELSE <<".", DigitChar(fp \div 10), DigitChar(fp % 10)>>
    IN Sign(h) \o Digits(Abs(h) \div 100) \o frac

MetricInfo(n, t, text) == [Name |-> n, Type |-> t, Value |-> text]

\* ---- the method calls a goroutine can make
NoCall == [m |-> "none", n |-> "", v |-> 0]

StoreCalls ==
    [m : {"SetGauge"}, n : Names, v : GaugeValues]
        \cup [m : {"AddCounter"}, n : Names, v : Deltas]
        \cup [m : {"GetGauge", "GetCounter"}, n : Names, v : {0}]
        \cup [m : {"GetAll"}, n : {""}, v : {0}]

IsWrite(c) == c.m \in {"SetGauge", "AddCounter"}

NoResult == [val |-> 0, ok |-> FALSE, all |-> <<>>]

\* the completed writes, as a reading call finds them
Seen == [added |-> addedLog, set |-> setLog, committed |-> committed]

\* a goroutine calls a method of the store
storeCall(p) ==
    /\ spc[p] = "idle"
    /\ scalls < MaxStoreCalls
    /\ \E c \in StoreCalls :
         /\ sop' = [sop EXCEPT ![p] = c]
         /\ spc' = [spc EXCEPT ![p] = IF IsWrite(c) THEN "lock" ELSE "rlock"]
    /\ scalls' = scalls + 1
    /\ UNCHANGED <<gauge, counter, muWriter, muReaders, sold, sres, sseen,
                   addedLog, setLog, committed>>

\* fault variant: the write lock is taken whoever holds the mutex
Lock_NoExclusion(p) ==
    /\ spc[p] = "lock"
    /\ muWriter' = p
    /\ spc' = [spc EXCEPT ![p] = "locked"]
    /\ UNCHANGED <<gauge, counter, muReaders, sop, sold, sres, sseen, scalls,
                   addedLog, setLog, committed>>

\* s.mu.Lock(): granted when no writer and no reader holds the mutex
Lock(p) ==
    /\ spc[p] = "lock"
    /\ muWriter = 0
    /\ muReaders = {}
    /\ muWriter' = p
    /\ spc' = [spc EXCEPT ![p] = "locked"]
    /\ UNCHANGED <<gauge, counter, muReaders, sop, sold, sres, sseen, scalls,
                   addedLog, setLog, committed>>

\* fault variant: the read lock is granted while a writer holds the mutex
RLock_NoExclusion(p) ==
    /\ spc[p] = "rlock"
    /\ muReaders' = muReaders \cup {p}
    /\ spc' = [spc EXCEPT ![p] = "rlocked"]
    /\ UNCHANGED <<gauge, counter, muWriter, sop, sold, sres, sseen, scalls,
                   addedLog, setLog, committed>>

\* s.mu.RLock(): granted when no writer holds the mutex
RLock(p) ==
    /\ spc[p] = "rlock"
    /\ muWriter = 0
    /\ muReaders' = muReaders \cup {p}
    /\ spc' = [spc EXCEPT ![p] = "rlocked"]
    /\ UNCHANGED <<gauge, counter, muWriter, sop, sold, sres, sseen, scalls,
                   addedLog, setLog, committed>>

\* the map assignment begins: s.counter[name] += delta loads the old value
\* (zero for an absent name), s.gauge[name] = value loads nothing
storeLoad(p) ==
    /\ spc[p] = "locked"
    /\ sold' = [sold EXCEPT ![p] = IF sop[p].m = "AddCounter"
                                     THEN Load(counter, sop[p].n) ELSE 0]
    /\ spc' = [spc EXCEPT ![p] = "writing"]
    /\ UNCHANGED <<gauge, counter, muWriter, muReaders, sop, sres, sseen,
                   scalls, addedLog, setLog, committed>>

\* defer s.mu.Unlock()
Unlock(p) == muWriter' = IF muWriter = p THEN 0 ELSE muWriter

\* defer s.mu.RUnlock()
RUnlock(p) == muReaders' = muReaders \ {p}

\* fault variant: a name that already has a value keeps it
SetGauge_KeepFirst(p) ==
    /\ spc[p] = "writing"
    /\ sop[p].m = "SetGauge"
    /\ gauge' = MapSet(gauge, sop[p].n,
                       IF sop[p].n \in DOMAIN gauge THEN gauge[sop[p].n]
                       ELSE sop[p].v)
    /\ setLog' = [setLog EXCEPT ![sop[p].n] = Append(@, sop[p].v)]
    /\ committed' = committed \cup {<<"gauge", sop[p].n, gauge'[sop[p].n]>>}
    /\ Unlock(p)
    /\ spc' = [spc EXCEPT ![p] = "idle"]
    /\ UNCHANGED <<counter, muReaders, sop, sold, sres, sseen, scalls,
                   addedLog>>

\* SetGauge stores the value, unlocks and returns
SetGauge(p) ==
    /\ spc[p] = "writing"
    /\ sop[p].m = "SetGauge"
    /\ gauge' = MapSet(gauge, sop[p].n, sop[p].v)
    /\ setLog' = [setLog EXCEPT ![sop[p].n] = Append(@, sop[p].v)]
    /\ committed' = committed \cup {<<"gauge", sop[p].n, gauge'[sop[p].n]>>}
    /\ Unlock(p)
    /\ spc' = [spc EXCEPT ![p] = "idle"]
    /\ UNCHANGED <<counter, muReaders, sop, sold, sres, sseen, scalls,
                   addedLog>>

\* fault variant: the delta replaces the old value
AddCounter_Overwrite(p) ==
    /\ spc[p] = "writing"
    /\ sop[p].m = "AddCounter"
    /\ counter' = MapSet(counter, sop[p].n, sop[p].v)
    /\ addedLog' = [addedLog EXCEPT ![sop[p].n] = Append(@, sop[p].v)]
    /\ committed' = committed
                      \cup {<<"counter", sop[p].n, counter'[sop[p].n]>>}
    /\ Unlock(p)
    /\ spc' = [spc EXCEPT ![p] = "idle"]
    /\ UNCHANGED <<gauge, muReaders, sop, sold, sres, sseen, scalls, setLog>>

\* AddCounter stores old value + delta, unlocks and returns
AddCounter(p) ==
    /\ spc[p] = "writing"
    /\ sop[p].m = "AddCounter"
    /\ counter' = MapSet(counter, sop[p].n, sold[p] + sop[p].v)
    /\ addedLog' = [addedLog EXCEPT ![sop[p].n] = Append(@, sop[p].v)]
    /\ committed' = committed
                      \cup {<<"counter", sop[p].n, counter'[sop[p].n]>>}
    /\ Unlock(p)
    /\ spc' = [spc EXCEPT ![p] = "idle"]
    /\ UNCHANGED <<gauge, muReaders, sop, sold, sres, sseen, scalls, setLog>>

\* GetGauge: val, ok := s.gauge[name]
GetGauge(p) ==
    /\ spc[p] = "rlocked"
    /\ sop[p].m = "GetGauge"
    /\ sres' = [sres EXCEPT ![p] = [val |-> Load(gauge, sop[p].n),
                                    ok |-> sop[p].n \in DOMAIN gauge,
                                    all |-> <<>>]]
    /\ sseen' = [sseen EXCEPT ![p] = Seen]
    /\ RUnlock(p)
    /\ spc' = [spc EXCEPT ![p] = "idle"]
    /\ UNCHANGED <<gauge, counter, muWriter, sop, sold, scalls, addedLog,
                   setLog, committed>>

\* GetCounter: val, ok := s.counter[name]
GetCounter(p) ==
    /\ spc[p] = "rlocked"
    /\ sop[p].m = "GetCounter"
    /\ sres' = [sres EXCEPT ![p] = [val |-> Load(counter, sop[p].n),
                                    ok |-> sop[p].n \in DOMAIN counter,
                                    all |-> <<>>]]
    /\ sseen' = [sseen EXCEPT ![p] = Seen]
    /\ RUnlock(p)
    /\ spc' = [spc EXCEPT ![p] = "idle"]
    /\ UNCHANGED <<gauge, counter, muWriter, sop, sold, scalls, addedLog,
                   setLog, committed>>

\* the orders in which a range over a map can visit the keys S
Orders(S) == {f \in [1..Cardinality(S) -> S] :
                 \A i, j \in 1..Cardinality(S) : f[i] = f[j] => i = j}

\* a map slot is being assigned by some caller
Writing(t, n) ==
    \E q \in Callers :
        /\ spc[q] = "writing"
        /\ sop[q].n = n
        /\ sop[q].m = (IF t = "gauge" THEN "SetGauge" ELSE "AddCounter")

\* what ranging over a map slot can yield: its value, or, when the slot is
\* being assigned at the same time (a data race), some other value as well
RangeLoad(m, t, n) ==
    IF Writing(t, n) THEN {m[n], m[n] + 1, m[n] - 1} ELSE {m[n]}

RangeLoads(m, t) ==
    {f \in [DOMAIN m -> UNION {RangeLoad(m, t, n) : n \in DOMAIN m}] :
        \A n \in DOMAIN m : f[n] \in RangeLoad(m, t, n)}

\* GetAll: the gauges, then the counters, each map in iteration order, the
\* values formatted as text
GetAll(p) ==
    /\ spc[p] = "rlocked"
    /\ sop[p].m = "GetAll"
    /\ \E go \in Orders(DOMAIN gauge), co \in Orders(DOMAIN counter),
          gv \in RangeLoads(gauge, "gauge"),
          cv \in RangeLoads(counter, "counter") :
         sres' = [sres EXCEPT ![p] =
             [val |-> 0, ok |-> FALSE,
              all |-> [i \in 1..Len(go) |->
                          MetricInfo(go[i], "gauge", FormatFloat(gv[go[i]]))]
                      \o [i \in 1..Len(co) |->
                          MetricInfo(co[i], "counter", FormatInt(cv[co[i]]))]]]
    /\ sseen' = [sseen EXCEPT ![p] = Seen]
    /\ RUnlock(p)
    /\ spc' = [spc EXCEPT ![p] = "idle"]
    /\ UNCHANGED <<gauge, counter, muWriter, sop, sold, scalls, addedLog,
                   setLog, committed>>

NoSeen == [added |-> [n \in Names |-> <<>>], set |-> [n \in Names |-> <<>>],
           committed |-> {}]

\* the store after NewMemStorage, with k goroutines about to call it
StoreStart(k) ==
    /\ gauge = EmptyMap
    /\ counter = EmptyMap
    /\ muWriter = 0
    /\ muReaders = {}
    /\ spc = [p \in 1..k |-> "idle"]
    /\ sop = [p \in 1..k |-> NoCall]
    /\ sold = [p \in 1..k |-> 0]
    /\ sres = [p \in 1..k |-> NoResult]
    /\ sseen = [p \in 1..k |-> NoSeen]
    /\ scalls = 0
    /\ addedLog = [n \in Names |-> <<>>]
    /\ setLog = [n \in Names |-> <<>>]
    /\ committed = {}

\* the store is not in use (the other specifications)
StoreParked == StoreStart(0)

\* =========================================================================
\* The server's update handlers: Handler.HandleUpdateJSON,
\* Handler.HandlerUpdateBatchJSON, MetricsService.UpdateMetrics, and
\* repository.SyncToDB
\* =========================================================================

\* ---- responses: an HTTP status or a gRPC code, with the message
StatusBadRequest == 400

StatusNotImplemented == 501

StatusInternalServerError == 500

CodeOK == 0

CodeInvalidArgument == 3

CodeInternal == 13

Resp(code, msg) == [code |-> code, msg |-> msg]

NoResp == Resp(-1, "")

\* ---- signatures: the hex text of an HMAC-SHA256, distinct for distinct
\* keys and bodies; the absent header reads as the empty text
NoHash == <<>>

computeHash(key, body) == <<"hmac-sha256", key, body>>

\* fault variant: with a key configured an absent signature is rejected
verifyHash_RejectAbsent(key, body, receivedHash) ==
    IF key = "" THEN TRUE
    ELSE receivedHash = computeHash(key, body)

verifyHash(key, body, receivedHash) ==
    IF key = "" THEN TRUE
    ELSE IF receivedHash = NoHash THEN TRUE
    ELSE receivedHash = computeHash(key, body)

\* ---- request bodies: a metric entry carries its id, its type and its value
\* or delta as an optional (<<>>: the field is absent)
Entry(id, mtype, val) == [id |-> id, mtype |-> mtype, val |-> val]

Entries == { Entry("m1", "gauge", <<250>>), Entry("m1", "gauge", <<-5>>),
             Entry("m1", "counter", <<7>>), Entry("m1", "gauge", <<>>),
             Entry("m1", "counter", <<>>), Entry("m1", "histogram", <<7>>),
             Entry("", "counter", <<7>>) }

\* the bytes of a body: malformed JSON, or the entries it decodes to
Body(bad, entries) == [bad |-> bad, entries |-> entries]

Bodies(lens) == {Body(TRUE, <<>>)}
                  \cup {Body(FALSE, es) : es \in UNION {[1..n -> Entries] : n \in lens}}

Request(path, body, sig) == [path |-> path, body |-> body, sig |-> sig]

\* the signatures a client may send with a body to a server whose key is key
Signatures(key, body) ==
    {NoHash, computeHash(key, body), computeHash(key, Body(TRUE, <<>>))}

Requests(key) ==
    UNION {{Request("update", b, s) : s \in Signatures(key, b)} : b \in Bodies({1})} \cup
    UNION {{Request("updates", b, s) : s \in Signatures(key, b)} : b \in Bodies(0..MaxEntries)} \cup
    {Request("rpc", b, NoHash) : b \in Bodies(0..MaxEntries) \ {Body(TRUE, <<>>)}} \cup
    {Request("param", b, NoHash) :
        b \in {c \in Bodies({1}) : ~c.bad /\ c.entries[1].id # ""}}

\* the value or delta of an entry; a protobuf getter on an unset field and a
\* dereferenced present field
ValueOf(e) == IF e.val = <<>> THEN 0 ELSE e.val[1]

\* the error response an entry draws, NoResp when the entry is applied
entryError(path, e) ==
    IF path = "rpc"
      THEN IF e.id = "" THEN Resp(CodeInvalidArgument, "metric id is required")
           ELSE IF e.mtype \notin {"gauge", "counter"}
             THEN Resp(CodeInvalidArgument, "unknown metric type")
           ELSE NoResp
    ELSE IF path = "param"
      THEN IF e.mtype \notin {"gauge", "counter"}
             THEN Resp(StatusNotImplemented, "unknown metric type")
           ELSE IF e.val = <<>> THEN Resp(StatusBadRequest, "invalid syntax")
           ELSE NoResp
      ELSE IF e.mtype = "gauge"
             THEN IF e.val = <<>>
                    THEN Resp(StatusBadRequest, "missing value for gauge")
                    ELSE NoResp
           ELSE IF e.mtype = "counter"
             THEN IF e.val = <<>>
                    THEN Resp(StatusBadRequest, "missing delta for counter")
                    ELSE NoResp
           ELSE Resp(StatusNotImplemented, "unknown metric type")

Store(g, c) == [gauge |-> g, counter |-> c]

\* fault variant: gauges and counters share one map of names
ApplyEntry_SharedNamespace(st, e) ==
    IF e.mtype = "gauge"
      THEN Store(MapSet(st.gauge, e.id, ValueOf(e)),
                 [n \in DOMAIN st.counter \ {e.id} |-> st.counter[n]])
      ELSE Store([n \in DOMAIN st.gauge \ {e.id} |-> st.gauge[n]],
                 MapSet(st.counter, e.id, Load(st.counter, e.id) + ValueOf(e)))

\* h.storage.SetGauge(m.ID, *m.Value) or h.storage.AddCounter(m.ID, *m.Delta)
ApplyEntry(st, e) ==
    IF e.mtype = "gauge"
      THEN Store(MapSet(st.gauge, e.id, ValueOf(e)), st.counter)
      ELSE Store(st.gauge,
                 MapSet(st.counter, e.id, Load(st.counter, e.id) + ValueOf(e)))

\* ---- strconv parsing of the texts GetAll produced
DigitVal(ch) == CHOOSE d \in 0..9 : DigitChar(d) = ch

RECURSIVE Number(_)
Number(t) == IF t = <<>> THEN 0
             ELSE 10 * Number(SubSeq(t, 1, Len(t) - 1)) + DigitVal(t[Len(t)])

Unsigned(t) == IF t # <<>> /\ Head(t) = "-" THEN Tail(t) ELSE t

Signed(t, v) == IF t # <<>> /\ Head(t) = "-" THEN -v ELSE v

\* strconv.ParseInt(text, 10, 64)
ParseInt(t) == Signed(t, Number(Unsigned(t)))

\* strconv.ParseFloat(text, 64), in hundredths
ParseFloat(t) ==
    LET u == Unsigned(t)
        dot == IF \E i \in 1..Len(u) : u[i] = "."
                 THEN CHOOSE i \in 1..Len(u) : u[i] = "." ELSE Len(u) + 1
        frac == SubSeq(u, dot + 1, Len(u))
        cents == IF Len(frac) = 0 THEN 0
                 ELSE IF Len(frac) = 1 THEN 10 * Number(frac)
                 ELSE Number(SubSeq(frac, 1, 2))
    IN Signed(t, 100 * Number(SubSeq(u, 1, dot - 1)) + cents)

\* ---- the metrics table: id -> (type, delta, value), NULL as <<>>
\* the arguments of one tx.Exec of the upsert statement
Row(info) ==
    IF info.Type = "gauge"
      THEN [id |-> info.Name, type |-> "gauge", delta |-> <<>>,
            value |-> <<ParseFloat(info.Value)>>]
      ELSE [id |-> info.Name, type |-> "counter",
            delta |-> <<ParseInt(info.Value)>>, value |-> <<>>]

\* fault variant: ON CONFLICT (id) DO NOTHING, a row that exists is kept
RECURSIVE UpsertAll_DoNothing(_, _)
UpsertAll_DoNothing(table, infos) ==
    IF infos = <<>> THEN table
    ELSE UpsertAll_DoNothing(
             IF Row(Head(infos)).id \in DOMAIN table THEN table
             ELSE MapSet(table, Row(Head(infos)).id,
                         [type |-> Row(Head(infos)).type,
                          delta |-> Row(Head(infos)).delta,
                          value |-> Row(Head(infos)).value]),
             Tail(infos))

\* INSERT ... ON CONFLICT (id) DO UPDATE, for each entry in turn
RECURSIVE UpsertAll(_, _)
UpsertAll(table, infos) ==
    IF infos = <<>> THEN table
    ELSE UpsertAll(MapSet(table, Row(Head(infos)).id,
                          [type |-> Row(Head(infos)).type,
                           delta |-> Row(Head(infos)).delta,
                           value |-> Row(Head(infos)).value]),
                   Tail(infos))

\* storage.GetAll() of a store, the maps visited in the orders go and co
Snapshot(st, go, co) ==
    [i \in 1..Len(go) |->
        MetricInfo(go[i], "gauge", FormatFloat(st.gauge[go[i]]))]
    \o [i \in 1..Len(co) |->
        MetricInfo(co[i], "counter", FormatInt(st.counter[co[i]]))]

\* the errors a database call returns: a connection-class error, which
\* RetryWithBackoff retries, and one of another class, which it does not
TxErrors == {PgError(<<"0", "8", "0", "0", "6">>),
             PgError(<<"2", "3", "5", "0", "5">>)}

TxMessage(stage) ==
    IF stage = "begin" THEN "failed to begin transaction"
    ELSE IF stage = "exec" THEN "failed to insert"
    ELSE "failed to commit transaction"

\* how one transaction goes: the failing call and the error it returns
TxOutcomes ==
    {[stage |-> "ok", err |-> Nil]}
    \cup {[stage |-> st, err |-> Wrap(TxMessage(st), e)] :
             st \in {"begin", "exec", "commit"}, e \in TxErrors}

\* fault variant: the upserts made before a failing Exec stay in the table
TxResult_NoRollback(table, infos, o) ==
    IF o.stage = "ok" THEN UpsertAll(table, infos)
    ELSE IF o.stage = "exec"
      THEN UpsertAll(table, SubSeq(infos, 1, Len(infos) - 1))
    ELSE table

\* the table after the transaction: committed as a whole, or rolled back by
\* the deferred tx.Rollback
TxResult(table, infos, o) ==
    IF o.stage = "ok" THEN UpsertAll(table, infos) ELSE table

\* http.Error(w, msg, status) or return nil, status.Error(code, msg): the
\* handler returns
Reply(r) ==
    /\ hresp' = r
    /\ hlog' = Append(hlog, "respond")
    /\ hpc' = "done"

\* where a handler goes after the sync, after the response and after the audit
\* event: HandleUpdate publishes the event and then writes the status, the
\* JSON handlers write the response and then publish the event, UpdateMetrics
\* publishes none
AfterSync(path) == IF path = "param" THEN "audit" ELSE "respond"

AfterResponse(path) == IF path \in {"update", "updates"} THEN "audit" ELSE "done"

AfterAudit(path) == IF path = "param" THEN "respond" ELSE "done"

\* a request reaches one of the update entry points: "update" is
\* HandleUpdateJSON, "updates" HandlerUpdateBatchJSON, "param" HandleUpdate
\* (type, name and value in the URL; an absent val stands for a value text
\* that does not parse), "rpc" MetricsService.UpdateMetrics
handlerReceive ==
    /\ hpc = "idle"
    /\ \E r \in Requests(hkey) :
         /\ req' = r
         /\ hpc' = IF r.path \in {"rpc", "param"} THEN "apply" ELSE "verify"
    /\ hstore0' = Store(gauge, counter)
    /\ hdb0' = dbTable
    /\ UNCHANGED <<hkey, hdb, dbTable, hidx, hattempt, hsyncErr, hresp, haudit,
                   hlog, hinfos, gauge, counter>>

\* fault variant: the body is decoded without the signature being verified
handlerVerify_Unchecked ==
    /\ hpc = "verify"
    /\ IF req.body.bad
         THEN Reply(Resp(StatusBadRequest, "invalid json"))
         ELSE hpc' = "apply" /\ UNCHANGED <<hresp, hlog>>
    /\ UNCHANGED <<hkey, hdb, dbTable, req, hidx, hattempt, hsyncErr, haudit,
                   hstore0, hdb0, hinfos, gauge, counter>>

\* the HTTP handlers verify the HashSHA256 header against the body, then
\* decode the body
handlerVerify ==
    /\ hpc = "verify"
    /\ IF ~verifyHash(hkey, req.body, req.sig)
         THEN Reply(Resp(StatusBadRequest, "invalid signature"))
         ELSE IF req.body.bad
         THEN Reply(Resp(StatusBadRequest, "invalid json"))
         ELSE hpc' = "apply" /\ UNCHANGED <<hresp, hlog>>
    /\ UNCHANGED <<hkey, hdb, dbTable, req, hidx, hattempt, hsyncErr, haudit,
                   hstore0, hdb0, hinfos, gauge, counter>>

\* fault variant: an invalid entry is skipped and the loop goes on
handlerApply_SkipInvalid ==
    /\ hpc = "apply"
    /\ hidx <= Len(req.body.entries)
    /\ LET e == req.body.entries[hidx] IN
         IF entryError(req.path, e) # NoResp
           THEN /\ hidx' = hidx + 1
                /\ UNCHANGED <<gauge, counter, hresp, hlog, hpc>>
           ELSE /\ gauge' = ApplyEntry(Store(gauge, counter), e).gauge
                /\ counter' = ApplyEntry(Store(gauge, counter), e).counter
                /\ hidx' = hidx + 1
                /\ hlog' = Append(hlog, "apply")
                /\ UNCHANGED <<hresp, hpc>>
    /\ UNCHANGED <<hkey, hdb, dbTable, req, hattempt, hsyncErr, haudit,
                   hstore0, hdb0, hinfos>>

\* one pass of the loop over the entries: an invalid entry ends the request
\* with its error, a valid one is applied to the store
handlerApply ==
    /\ hpc = "apply"
    /\ hidx <= Len(req.body.entries)
    /\ LET e == req.body.entries[hidx] IN
         IF entryError(req.path, e) # NoResp
           THEN /\ Reply(entryError(req.path, e))
                /\ UNCHANGED <<gauge, counter, hidx>>
           ELSE /\ gauge' = ApplyEntry(Store(gauge, counter), e).gauge
                /\ counter' = ApplyEntry(Store(gauge, counter), e).counter
                /\ hidx' = hidx + 1
                /\ hlog' = Append(hlog, "apply")
                /\ UNCHANGED <<hresp, hpc>>
    /\ UNCHANGED <<hkey, hdb, dbTable, req, hattempt, hsyncErr, haudit,
                   hstore0, hdb0, hinfos>>

\* the loop is over: if h.db != nil the store is synced, else the response is
\* written
handlerLoopEnd ==
    /\ hpc = "apply"
    /\ hidx > Len(req.body.entries)
    /\ hpc' = IF hdb THEN "sync" ELSE AfterSync(req.path)
    /\ UNCHANGED <<hkey, hdb, dbTable, req, hidx, hattempt, hsyncErr, hresp,
                   haudit, hlog, hstore0, hdb0, hinfos, gauge, counter>>

InternalError(path) ==
    Resp(IF path = "rpc" THEN CodeInternal ELSE StatusInternalServerError,
         "failed to save metrics")

\* SyncToDB: an attempt of the operation handed to RetryWithBackoff begins
\* with metrics := storage.GetAll(); the store's lock is released when
\* GetAll returns
syncGetAll ==
    /\ hpc = "sync"
    /\ hattempt < Len(retryIntervals)
    /\ \E go \in Orders(DOMAIN gauge), co \in Orders(DOMAIN counter) :
         hinfos' = Snapshot(Store(gauge, counter), go, co)
    /\ hpc' = "tx"
    /\ UNCHANGED <<hkey, hdb, dbTable, req, hidx, hattempt, hsyncErr, hresp,
                   haudit, hlog, hstore0, hdb0, gauge, counter>>

\* the transaction of the attempt: Begin, an upsert of every metric GetAll
\* returned, Commit; success and an error that is not retriable end the
\* helper, a retriable error makes it wait
syncTx ==
    /\ hpc = "tx"
    /\ hattempt' = hattempt + 1
    /\ \E o \in TxOutcomes :
         /\ o.stage = "exec" => hinfos # <<>>
         /\ dbTable' = TxResult(dbTable, hinfos, o)
         /\ IF o.err = Nil
              THEN /\ hsyncErr' = Nil
                   /\ hlog' = Append(hlog, "sync")
                   /\ hpc' = AfterSync(req.path)
                   /\ UNCHANGED hresp
              ELSE IF isRetriableError(o.err)
              THEN /\ hsyncErr' = o.err
                   /\ hpc' = "sync"
                   /\ UNCHANGED <<hresp, hlog>>
              ELSE /\ hsyncErr' = o.err
                   /\ Reply(InternalError(req.path))
    /\ UNCHANGED <<hkey, hdb, req, hidx, haudit, hstore0, hdb0, hinfos, gauge,
                   counter>>

\* the wait after the last attempt of the schedule is over: the helper
\* returns the wrapped lastErr
SyncExhausted ==
    /\ hpc = "sync"
    /\ hattempt = Len(retryIntervals)
    /\ hsyncErr' = Wrap("operation failed after retries", hsyncErr)
    /\ Reply(InternalError(req.path))
    /\ UNCHANGED <<hkey, hdb, dbTable, req, hidx, hattempt, haudit, hstore0,
                   hdb0, hinfos, gauge, counter>>

\* the request's context is cancelled while SyncToDB waits for its next
\* attempt: the helper returns ctx.Err()
SyncCancelled ==
    /\ hpc = "sync"
    /\ hattempt >= 1
    /\ hsyncErr' = CtxErr
    /\ Reply(InternalError(req.path))
    /\ UNCHANGED <<hkey, hdb, dbTable, req, hidx, hattempt, haudit, hstore0,
                   hdb0, hinfos, gauge, counter>>

\* the response write of a JSON handler can fail (w.Write returns an error)
WriteResults(path) ==
    IF path \in {"update", "updates"} THEN {"ok", "failed"} ELSE {"ok"}

\* writeJSONWithHash calls WriteHeader(200) and writes the body, HandleUpdate
\* writes status 200, UpdateMetrics returns its empty response. When the
\* body write fails the JSON handler calls http.Error and returns without
\* publishing the event; the status 200 was written before, so the 500 of
\* http.Error comes too late to replace it
writeResponse ==
    /\ hpc = "respond"
    /\ \E wr \in WriteResults(req.path) :
         IF wr = "ok"
           THEN /\ hresp' = Resp(IF req.path = "rpc" THEN CodeOK ELSE StatusOK,
                                 "ok")
                /\ hpc' = AfterResponse(req.path)
           ELSE /\ hresp' = Resp(StatusOK, "failed to write response")
                /\ hpc' = "done"
    /\ hlog' = Append(hlog, "respond")
    /\ UNCHANGED <<hkey, hdb, dbTable, req, hidx, hattempt, hsyncErr, haudit,
                   hstore0, hdb0, hinfos, gauge, counter>>

\* sendAuditEvent: the ids of the request's metrics are handed to the audit
\* manager (cmd/server always sets one)
sendAuditEvent ==
    /\ hpc = "audit"
    /\ haudit' = Append(haudit,
                        [i \in 1..Len(req.body.entries) |->
                            req.body.entries[i].id])
    /\ hlog' = Append(hlog, "audit")
    /\ hpc' = AfterAudit(req.path)
    /\ UNCHANGED <<hkey, hdb, dbTable, req, hidx, hattempt, hsyncErr, hresp,
                   hstore0, hdb0, hinfos, gauge, counter>>

\* the stores a server can hold when a request arrives: a new one, or one
\* that earlier requests have written a gauge and a counter to
PriorStores ==
    { Store(EmptyMap, EmptyMap),
      Store([n \in {"m1"} |-> -5], [n \in {"m1"} |-> 7]) }

\* the tables an earlier successful sync of the store st can have left
SyncedTables(st) ==
    {UpsertAll(EmptyMap, Snapshot(st, go, co)) :
        go \in Orders(DOMAIN st.gauge), co \in Orders(DOMAIN st.counter)}

\* the store holds st and no goroutine is inside one of its methods
StoreHolds(st) ==
    /\ gauge = st.gauge
    /\ counter = st.counter
    /\ muWriter = 0
    /\ muReaders = {}
    /\ spc = <<>>
    /\ sop = <<>>
    /\ sold = <<>>
    /\ sres = <<>>
    /\ sseen = <<>>
    /\ scalls = 0
    /\ addedLog = [n \in Names |-> <<>>]
    /\ setLog = [n \in Names |-> <<>>]
    /\ committed = {}

\* a server with signing key key, with or without a database, ready for a
\* request
ServerStart(key, db, table) ==
    /\ hkey = key
    /\ hdb = db
    /\ dbTable = table
    /\ hpc = "idle"
    /\ req = Request("rpc", Body(FALSE, <<>>), NoHash)
    /\ hidx = 1
    /\ hattempt = 0
    /\ hsyncErr = Nil
    /\ hresp = NoResp
    /\ haudit = <<>>
    /\ hlog = <<>>
    /\ hstore0 = Store(EmptyMap, EmptyMap)
    /\ hdb0 = EmptyMap
    /\ hinfos = <<>>

\* no server is running (the other specifications)
ServerParked ==
    /\ hkey = ""
    /\ hdb = FALSE
    /\ dbTable = EmptyMap
    /\ hpc = "off"
    /\ req = Request("rpc", Body(FALSE, <<>>), NoHash)
    /\ hidx = 1
    /\ hattempt = 0
    /\ hsyncErr = Nil
    /\ hresp = NoResp
    /\ haudit = <<>>
    /\ hlog = <<>>
    /\ hstore0 = Store(EmptyMap, EmptyMap)
    /\ hdb0 = EmptyMap
    /\ hinfos = <<>>

\* =========================================================================
\* repository.AuditManager and the handlers' sendAuditEvent
\* =========================================================================

\* the observers cmd/server can attach: the file and the URL observer
Observers == {"file", "url"}

\* the updates the audited requests carry
AuditedEntries == {Entry("m1", "gauge", <<250>>), Entry("m1", "counter", <<7>>)}

\* a call on the manager, as the caller sees it: the method, its argument,
\* the list when the lock was taken and the value returned
ManagerCall(op, o, before, ret) ==
    [op |-> op, o |-> o, before |-> before, ret |-> ret]

NoManagerCall == ManagerCall("", "", <<>>, FALSE)

\* Attach appends the observer under the write lock
Attach(o) ==
    /\ apc = "setup"
    /\ Len(observers) < MaxObservers
    /\ observers' = Append(observers, o)
    /\ aop' = ManagerCall("Attach", o, observers, FALSE)
    /\ UNCHANGED <<apc, apath, aidx, aevents, acalls, alogged, aresp, astore,
                   astore0>>

\* Detach's loop from index i: the first observer equal to o is cut out of
\* the list and the loop breaks
RECURSIVE detachFrom(_, _, _)
detachFrom(list, o, i) ==
    IF i > Len(list) THEN list
    ELSE IF list[i] = o
           THEN SubSeq(list, 1, i - 1) \o SubSeq(list, i + 1, Len(list))
           ELSE detachFrom(list, o, i + 1)

\* fault variant: the loop does not break and cuts every occurrence out
Detach_RemoveAll(o) ==
    /\ apc = "setup"
    /\ observers' = SelectSeq(observers, LAMBDA x : x # o)
    /\ aop' = ManagerCall("Detach", o, observers, FALSE)
    /\ UNCHANGED <<apc, apath, aidx, aevents, acalls, alogged, aresp, astore,
                   astore0>>

\* Detach removes the observer under the write lock
Detach(o) ==
    /\ apc = "setup"
    /\ observers' = detachFrom(observers, o, 1)
    /\ aop' = ManagerCall("Detach", o, observers, FALSE)
    /\ UNCHANGED <<apc, apath, aidx, aevents, acalls, alogged, aresp, astore,
                   astore0>>

\* HasObservers reads the length of the list under the read lock
HasObservers ==
    /\ apc = "setup"
    /\ aop' = ManagerCall("HasObservers", "", observers, Len(observers) > 0)
    /\ UNCHANGED <<observers, apc, apath, aidx, aevents, acalls, alogged,
                   aresp, astore, astore0>>

\* the server starts to serve requests
auditServe ==
    /\ apc = "setup"
    /\ apc' = "idle"
    /\ UNCHANGED <<observers, apath, aidx, aevents, acalls, alogged, aresp,
                   astore, astore0, aop>>

\* a request is applied to the store; a JSON handler writes its response;
\* sendAuditEvent builds the event and calls Notify
auditedRequest ==
    /\ apc = "idle"
    /\ aevents < MaxEvents
    /\ \E e \in AuditedEntries, path \in {"update", "param"} :
         /\ apath' = path
         /\ astore0' = astore
         /\ astore' = ApplyEntry(astore, e)
         /\ aresp' = IF AfterSync(path) = "respond"
                       THEN Resp(StatusOK, "ok") ELSE NoResp
    /\ aevents' = aevents + 1
    /\ aidx' = 1
    /\ apc' = "notify"
    /\ UNCHANGED <<observers, acalls, alogged, aop>>

\* fault variant: the loop ends at the first observer that fails
OnAuditEvent_StopOnError ==
    /\ apc = "notify"
    /\ aidx <= Len(observers)
    /\ \E err \in BOOLEAN :
         /\ acalls' = Append(acalls, [ev |-> aevents, obs |-> observers[aidx],
                                      err |-> err])
         /\ alogged' = IF err
                         THEN Append(alogged,
                                     [ev |-> aevents, obs |-> observers[aidx]])
                         ELSE alogged
         /\ aidx' = IF err THEN Len(observers) + 1 ELSE aidx + 1
    /\ UNCHANGED <<observers, apc, apath, aevents, aresp, astore, astore0,
                   aop>>

\* one pass of Notify's loop: the observer is invoked, its error is logged
OnAuditEvent ==
    /\ apc = "notify"
    /\ aidx <= Len(observers)
    /\ \E err \in BOOLEAN :
         /\ acalls' = Append(acalls, [ev |-> aevents, obs |-> observers[aidx],
                                      err |-> err])
         /\ alogged' = IF err
                         THEN Append(alogged,
                                     [ev |-> aevents, obs |-> observers[aidx]])
                         ELSE alogged
    /\ aidx' = aidx + 1
    /\ UNCHANGED <<observers, apc, apath, aevents, aresp, astore, astore0,
                   aop>>

\* Notify returns nothing, and sendAuditEvent returns
NotifyReturn ==
    /\ apc = "notify"
    /\ aidx > Len(observers)
    /\ apc' = "tail"
    /\ UNCHANGED <<observers, apath, aidx, aevents, acalls, alogged, aresp,
                   astore, astore0, aop>>

\* the handler ends: HandleUpdate writes status 200, the JSON handlers return
auditedReturn ==
    /\ apc = "tail"
    /\ aresp' = IF AfterAudit(apath) = "respond"
                  THEN Resp(StatusOK, "ok") ELSE aresp
    /\ apc' = "idle"
    /\ UNCHANGED <<observers, apath, aidx, aevents, acalls, alogged, astore,
                   astore0, aop>>

AuditStart(k) ==
    /\ observers = <<>>
    /\ apc = k
    /\ apath = ""
    /\ aidx = 0
    /\ aevents = 0
    /\ acalls = <<>>
    /\ alogged = <<>>
    /\ aresp = NoResp
    /\ aop = NoManagerCall

AuditParked ==
    /\ AuditStart("off")
    /\ astore = Store(EmptyMap, EmptyMap)
    /\ astore0 = Store(EmptyMap, EmptyMap)

\* =========================================================================
\* grpcserver.IPSubnetInterceptor
\* =========================================================================

CodePermissionDenied == 7

\* an x-real-ip value: the dot-separated fields of its text and whether blanks
\* surround it
Text(pad, fields) == [pad |-> pad, fields |-> fields]

\* strings.TrimSpace
TrimSpace(t) == Text(FALSE, t.fields)

\* net.ParseIP on a dotted text: four fields, each a number of one byte, and
\* nothing else; <<>> for nil
ParseIP(t) ==
    IF ~t.pad /\ Len(t.fields) = 4 /\ \A i \in 1..4 : t.fields[i] \in 0..255
      THEN <<t.fields>> ELSE <<>>

Pow2(n) == IF n = 0 THEN 1 ELSE IF n = 1 THEN 2 ELSE IF n = 2 THEN 4
           ELSE IF n = 3 THEN 8 ELSE IF n = 4 THEN 16 ELSE IF n = 5 THEN 32
           ELSE IF n = 6 THEN 64 ELSE IF n = 7 THEN 128 ELSE 256

\* the i-th byte of net.CIDRMask(bits, 32)
MaskByte(bits, i) ==
    LET n == IF bits - 8 * (i - 1) > 8 THEN 8
             ELSE IF bits - 8 * (i - 1) < 0 THEN 0 ELSE bits - 8 * (i - 1)
    IN 256 - Pow2(8 - n)

\* b & m for a mask byte m of leading ones
AndMask(b, m) == b - (b % (256 - m))

\* fault variant: only the first byte is compared
Contains_FirstByte(net, ip) ==
    AndMask(net.ip[1], MaskByte(net.bits, 1)) = AndMask(ip[1], MaskByte(net.bits, 1))

\* IPNet.Contains: byte by byte, nn[i] & m[i] = x[i] & m[i]
Contains(net, ip) ==
    \A i \in 1..4 :
        AndMask(net.ip[i], MaskByte(net.bits, i)) = AndMask(ip[i], MaskByte(net.bits, i))

Subnet(ip, bits) == [ip |-> ip, bits |-> bits]

\* the trusted subnets a server is configured with: none, 10.0.0.0/8,
\* 10.0.1.0/24, 192.168.1.128/25
Subnets == {<<>>, <<Subnet(<<10, 0, 0, 0>>, 8)>>, <<Subnet(<<10, 0, 1, 0>>, 24)>>,
            <<Subnet(<<192, 168, 1, 128>>, 25)>>}

RealIPTexts ==
    {Text(FALSE, <<10, 0, 1, 5>>), Text(TRUE, <<10, 0, 1, 5>>),
     Text(FALSE, <<10, 2, 0, 1>>), Text(FALSE, <<192, 168, 1, 130>>),
     Text(FALSE, <<192, 168, 1, 5>>), Text(FALSE, <<10, 0, 1>>),
     Text(FALSE, <<10, 0, 1, 256>>), Text(FALSE, <<>>)}

\* the metadata of a call: none in the context, no x-real-ip value, one
\* value, or two values
Metadata ==
    {<<>>, <<(<<>>)>>} \cup {<<(<<t>>)>> : t \in RealIPTexts}
    \cup {<<(<<Text(FALSE, <<10, 0, 1, 5>>), Text(FALSE, <<10, 2, 0, 1>>)>>)>>,
          <<(<<Text(FALSE, <<10, 2, 0, 1>>), Text(FALSE, <<10, 0, 1, 5>>)>>)>>}

\* fault variant: a call without the x-real-ip value is let through
interceptorError_MissingPasses(subnet, md) ==
    IF subnet = <<>> THEN NoResp
    ELSE IF md = <<>> THEN Resp(CodePermissionDenied, "missing metadata")
    ELSE IF Len(md[1]) = 0 THEN NoResp
    ELSE LET ip == ParseIP(TrimSpace(md[1][1]))
         IN IF ip = <<>> \/ ~Contains(subnet[1], ip[1])
              THEN Resp(CodePermissionDenied, "ip not allowed")
              ELSE NoResp

\* the error the interceptor answers with, NoResp when it calls the handler
interceptorError(subnet, md) ==
    IF subnet = <<>> THEN NoResp
    ELSE IF md = <<>> THEN Resp(CodePermissionDenied, "missing metadata")
    ELSE IF Len(md[1]) = 0 THEN Resp(CodePermissionDenied, "missing x-real-ip")
    ELSE LET ip == ParseIP(TrimSpace(md[1][1]))
         IN IF ip = <<>> \/ ~Contains(subnet[1], ip[1])
              THEN Resp(CodePermissionDenied, "ip not allowed")
              ELSE NoResp

\* a unary call arrives at the server
rpcCall ==
    /\ gpc = "idle"
    /\ gcalls < MaxRPCs
    /\ \E md \in Metadata, e \in AuditedEntries : gmd' = md /\ gentry' = e
    /\ gcalls' = gcalls + 1
    /\ ghandled' = FALSE
    /\ gresp' = NoResp
    /\ gstore0' = gstore
    /\ gpc' = "intercept"
    /\ UNCHANGED <<gsubnet, gstore>>

\* the interceptor returns the permission error or calls the handler
IPSubnetInterceptor ==
    /\ gpc = "intercept"
    /\ IF interceptorError(gsubnet, gmd) = NoResp
         THEN gpc' = "handler" /\ UNCHANGED gresp
         ELSE gpc' = "idle" /\ gresp' = interceptorError(gsubnet, gmd)
    /\ UNCHANGED <<gsubnet, gmd, gentry, gcalls, ghandled, gstore, gstore0>>

\* the handler: UpdateMetrics writes the metric and answers OK
gateHandler ==
    /\ gpc = "handler"
    /\ ghandled' = TRUE
    /\ gstore' = ApplyEntry(gstore, gentry)
    /\ gresp' = Resp(CodeOK, "ok")
    /\ gpc' = "idle"
    /\ UNCHANGED <<gsubnet, gmd, gentry, gcalls, gstore0>>

GateStart(k, subnet) ==
    /\ gsubnet = subnet
    /\ gpc = k
    /\ gmd = <<>>
    /\ gentry = Entry("", "", <<>>)
    /\ gcalls = 0
    /\ ghandled = FALSE
    /\ gresp = NoResp
    /\ gstore = Store(EmptyMap, EmptyMap)
    /\ gstore0 = Store(EmptyMap, EmptyMap)

GateParked == GateStart("off", <<>>)

\* =========================================================================
\* RestySender.SendBatch with bufPool and gzipPool, and the server's reading
\* of what it posts
\* =========================================================================

\* the batches handed to SendBatch; a gauge that is not a number (written
\* 0/0 here) cannot be marshalled
Batches == {<<Entry("m1", "gauge", <<250>>)>>,
            <<Entry("m1", "gauge", <<250>>), Entry("m2", "counter", <<7>>)>>,
            <<Entry("m1", "gauge", <<0, 0>>)>>}

\* json.Marshal(metrics): <<>> for an error
Marshal(batch) ==
    IF \E i \in 1..Len(batch) : Len(batch[i].val) = 2
      THEN <<>> ELSE <<"json", batch>>

\* what gz.Write(body) and gz.Close() leave in the buffer
Gzip(body) == <<"gzip", body>>

\* crypto.EncryptData: RSA-OAEP with random padding
EncryptData(data, pad) == <<"rsa-oaep", pad, data>>

Pads == {1, 2}

\* computeHMACSHA256(data, key)
computeHMACSHA256(data, key) == computeHash(key, data)

\* fault variant: the signature is computed over the bytes that are sent
signedRequest_SignsSent(key, crypto, batch, pad) ==
    LET compressed == Gzip(Marshal(batch))
        dataToSend == IF crypto THEN EncryptData(compressed, pad) ELSE compressed
    IN [body |-> dataToSend,
        sig |-> IF key # "" THEN computeHMACSHA256(dataToSend, key) ELSE NoHash,
        encrypted |-> crypto]

\* the request SendBatch posts: body, HashSHA256 and X-Encrypted
signedRequest(key, crypto, batch, pad) ==
    LET compressed == Gzip(Marshal(batch))
        dataToSend == IF crypto THEN EncryptData(compressed, pad) ELSE compressed
    IN [body |-> dataToSend,
        sig |-> IF key # "" THEN computeHMACSHA256(compressed, key) ELSE NoHash,
        encrypted |-> crypto]

\* the status HandlerUpdateBatchJSON answers a posted request with: the
\* signature is verified over the body as read, then the body is gunzipped
\* and decoded
batchStatus(key, r) ==
    IF ~verifyHash(key, r.body, r.sig) THEN StatusBadRequest
    ELSE IF r.body[1] # "gzip" THEN StatusBadRequest
    ELSE StatusOK

NoObject == 0

\* the workers that call SendBatch at the same time
Senders == {1, 2}

\* a call: where it is, its batch, the pool objects it took, the request it
\* built, the status the server gave it (0 for none), its error, and how
\* often it has put each object back
IdleCall == [pc |-> "idle", n |-> 0, batch |-> <<>>, buf |-> NoObject,
             gz |-> NoObject, req |-> <<>>, status |-> 0, err |-> "",
             putBuf |-> 0, putGz |-> 0]

\* SendBatch is entered and marshals the batch; a marshalling error returns
sendBatchBegin(p) ==
    /\ rsCall[p].pc = "idle"
    /\ rsStarted < MaxSends
    /\ rsStarted' = rsStarted + 1
    /\ \E batch \in Batches :
         rsCall' = [rsCall EXCEPT ![p] =
                      [IdleCall EXCEPT !.n = 1,
                                       !.batch = batch,
                                       !.pc = IF Marshal(batch) = <<>>
                                                THEN "idle" ELSE "getbuf",
                                       !.err = IF Marshal(batch) = <<>>
                                                 THEN "marshal" ELSE ""]]
    /\ UNCHANGED <<rsKey, rsCryptoKey, rsServerKey, bufPool, gzipPool,
                   poolMade>>

\* bufPool.Get(): an object the pool holds, or a new one
bufPoolGet(p) ==
    /\ rsCall[p].pc = "getbuf"
    /\ \/ \E b \in bufPool :
            /\ bufPool' = bufPool \ {b}
            /\ rsCall' = [rsCall EXCEPT ![p].buf = b, ![p].pc = "getgz"]
            /\ UNCHANGED poolMade
       \/ /\ poolMade' = [poolMade EXCEPT !.buf = @ + 1]
          /\ rsCall' = [rsCall EXCEPT ![p].buf = poolMade.buf + 1,
                                      ![p].pc = "getgz"]
          /\ UNCHANGED bufPool
    /\ UNCHANGED <<rsKey, rsCryptoKey, rsServerKey, gzipPool, rsStarted>>

\* gzipPool.Get()
gzipPoolGet(p) ==
    /\ rsCall[p].pc = "getgz"
    /\ \/ \E g \in gzipPool :
            /\ gzipPool' = gzipPool \ {g}
            /\ rsCall' = [rsCall EXCEPT ![p].gz = g, ![p].pc = "prepare"]
            /\ UNCHANGED poolMade
       \/ /\ poolMade' = [poolMade EXCEPT !.gz = @ + 1]
          /\ rsCall' = [rsCall EXCEPT ![p].gz = poolMade.gz + 1,
                                      ![p].pc = "prepare"]
          /\ UNCHANGED gzipPool
    /\ UNCHANGED <<rsKey, rsCryptoKey, rsServerKey, bufPool, rsStarted>>

\* fault variant: an error path returns without giving the objects back
sendBatchPrepare_LeakOnError(p) ==
    /\ rsCall[p].pc = "prepare"
    /\ \/ \E e \in {"gzip"} \cup (IF rsCryptoKey THEN {"encrypt"} ELSE {}) :
            rsCall' = [rsCall EXCEPT ![p].err = e, ![p].pc = "idle"]
       \/ \E pad \in Pads :
            rsCall' = [rsCall EXCEPT
                         ![p].req = <<signedRequest(rsKey, rsCryptoKey,
                                                    rsCall[p].batch, pad)>>,
                         ![p].pc = "post"]
    /\ UNCHANGED <<rsKey, rsCryptoKey, rsServerKey, bufPool, gzipPool,
                   poolMade, rsStarted>>

\* the batch is compressed, signed and encrypted; a gzip or an encryption
\* error leads to the release of the objects and the return of the error
sendBatchPrepare(p) ==
    /\ rsCall[p].pc = "prepare"
    /\ \/ \E e \in {"gzip"} \cup (IF rsCryptoKey THEN {"encrypt"} ELSE {}) :
            rsCall' = [rsCall EXCEPT ![p].err = e, ![p].pc = "putgz"]
       \/ \E pad \in Pads :
            rsCall' = [rsCall EXCEPT
                         ![p].req = <<signedRequest(rsKey, rsCryptoKey,
                                                    rsCall[p].batch, pad)>>,
                         ![p].pc = "post"]
    /\ UNCHANGED <<rsKey, rsCryptoKey, rsServerKey, bufPool, gzipPool,
                   poolMade, rsStarted>>

\* the POST inside RetryWithBackoff: it fails, or the server answers; neither
\* error is retriable, so the closure runs once
sendBatchPost(p) ==
    /\ rsCall[p].pc = "post"
    /\ \/ rsCall' = [rsCall EXCEPT ![p].err = "post", ![p].pc = "putgz"]
       \/ LET st == batchStatus(rsServerKey, rsCall[p].req[1])
          IN rsCall' = [rsCall EXCEPT
                          ![p].status = st,
                          ![p].err = IF st = StatusOK THEN ""
                                     ELSE "unexpected status",
                          ![p].pc = "putgz"]
    /\ UNCHANGED <<rsKey, rsCryptoKey, rsServerKey, bufPool, gzipPool,
                   poolMade, rsStarted>>

\* gz.Reset(io.Discard); gzipPool.Put(gz)
gzipPoolPut(p) ==
    /\ rsCall[p].pc = "putgz"
    /\ gzipPool' = gzipPool \cup {rsCall[p].gz}
    /\ rsCall' = [rsCall EXCEPT ![p].putGz = @ + 1, ![p].pc = "putbuf"]
    /\ UNCHANGED <<rsKey, rsCryptoKey, rsServerKey, bufPool, poolMade,
                   rsStarted>>

\* buf.Reset(); bufPool.Put(buf); SendBatch returns
bufPoolPut(p) ==
    /\ rsCall[p].pc = "putbuf"
    /\ bufPool' = bufPool \cup {rsCall[p].buf}
    /\ rsCall' = [rsCall EXCEPT ![p].putBuf = @ + 1, ![p].pc = "idle"]
    /\ UNCHANGED <<rsKey, rsCryptoKey, rsServerKey, gzipPool, poolMade,
                   rsStarted>>

SendStart(key, crypto, serverKey) ==
    /\ rsKey = key
    /\ rsCryptoKey = crypto
    /\ rsServerKey = serverKey
    /\ bufPool = {}
    /\ gzipPool = {}
    /\ poolMade = [buf |-> 0, gz |-> 0]
    /\ rsCall = [p \in Senders |-> IdleCall]
    /\ rsStarted = 0

SendParked == SendStart("", FALSE, "")

\* =========================================================================
\* service.NewRouter, repository.SaveMetricsToFile and LoadMetricsFromFile
\* =========================================================================

\* a float64: a finite value in hundredths, or +Inf
Float(h) == [inf |-> FALSE, h |-> h]

PosInf == [inf |-> TRUE, h |-> 0]

InfText == <<"+", "I", "n", "f">>

\* strconv.FormatFloat(v, 'f', -1, 64) and strconv.ParseFloat(text, 64) on
\* all float64 values
FormatFloat64(x) == IF x.inf THEN InfText ELSE FormatFloat(x.h)

ParseFloat64(t) == IF t = InfText THEN PosInf ELSE Float(ParseFloat(t))

\* the update an endpoint is asked for: a gauge value or a counter delta
Update(id, mtype, value, delta) ==
    [id |-> id, mtype |-> mtype, value |-> value, delta |-> delta]

\* a JSON body cannot carry an infinite number; a URL value (ParseFloat of
\* "Inf") and a protobuf double can
UpdatesOf(path) ==
    {Update("m1", "gauge", Float(250), 0), Update("m2", "gauge", Float(-5), 0),
     Update("m1", "counter", Float(0), 7), Update("m1", "counter", Float(0), -3)}
    \cup (IF path \in {"param", "rpc"}
            THEN {Update("m1", "gauge", PosInf, 0)} ELSE {})

\* a request the handler rejects before it touches the store (400, 404)
NoUpdate == Update("", "", Float(0), 0)

\* the requests an endpoint is sent
RequestsOf(path) == UpdatesOf(path) \cup {NoUpdate}

\* SetGauge or AddCounter on the store; a rejected request leaves it alone
fileApply(st, u) ==
    IF u.mtype = "gauge"
      THEN Store(MapSet(st.gauge, u.id, u.value), st.counter)
    ELSE IF u.mtype = "counter"
      THEN Store(st.gauge,
                 MapSet(st.counter, u.id, Load(st.counter, u.id) + u.delta))
    ELSE st

\* storage.GetAll(): gauges, then counters, as texts
fileGetAll(st, go, co) ==
    [i \in 1..Len(go) |->
        MetricInfo(go[i], "gauge", FormatFloat64(st.gauge[go[i]]))]
    \o [i \in 1..Len(co) |->
        MetricInfo(co[i], "counter", FormatInt(st.counter[co[i]]))]

\* the models.Metrics SaveMetricsToFile builds from a MetricInfo
saveRecord(info) ==
    IF info.Type = "gauge"
      THEN [ID |-> info.Name, MType |-> "gauge", Delta |-> <<>>,
            Value |-> <<ParseFloat64(info.Value)>>]
      ELSE [ID |-> info.Name, MType |-> "counter",
            Delta |-> <<ParseInt(info.Value)>>, Value |-> <<>>]

\* the JSON object of a models.Metrics: numbers as their texts
jsonObject(m) ==
    [id |-> m.ID, type |-> m.MType,
     delta |-> IF m.Delta = <<>> THEN <<>> ELSE <<FormatInt(m.Delta[1])>>,
     value |-> IF m.Value = <<>> THEN <<>> ELSE <<FormatFloat64(m.Value[1])>>]

\* a JSON text: null, or an array of objects
JSONNull == [null |-> TRUE, items |-> <<>>]

JSONArray(items) == [null |-> FALSE, items |-> items]

\* a file: the JSON text at its start (none in an empty file) and the number
\* of bytes an earlier, longer write left behind it
NoFile == [exists |-> FALSE, data |-> <<>>, tail |-> 0]

File(data) == [exists |-> TRUE, data |-> data, tail |-> 0]

\* SaveMetricsToFile: the slice out built from the metrics GetAll returned
saveRecords(infos) == [i \in 1..Len(infos) |-> saveRecord(infos[i])]

\* enc.Encode(out): the text written; null for the nil slice of an empty
\* store, nothing when a value cannot be encoded
Encode(out) ==
    IF \E i \in 1..Len(out) : out[i].Value # <<>> /\ out[i].Value[1].inf
      THEN <<>>
    ELSE IF out = <<>> THEN <<JSONNull>>
    ELSE <<JSONArray([i \in 1..Len(out) |-> jsonObject(out[i])])>>

\* the bytes of {"id":"..","type":"..","delta":..} or {..,"value":..}
ObjectSize(o) ==
    7 + Len(o.id) + 10 + Len(o.type) + 10
      + (IF o.delta # <<>> THEN Len(o.delta[1]) ELSE Len(o.value[1])) + 1

RECURSIVE ObjectSizes(_)
ObjectSizes(items) ==
    IF items = <<>> THEN 0
    ELSE ObjectSize(Head(items)) + ObjectSizes(Tail(items))

\* the bytes Encode writes: the text and the newline after it
TextSize(data) ==
    IF data = <<>> THEN 0
    ELSE IF data[1].null THEN 5
    ELSE 1 + ObjectSizes(data[1].items) + (Len(data[1].items) - 1) + 2

FileSize(file) == TextSize(file.data) + file.tail

\* os.Create: the file exists and is empty
Truncate(file) == File(<<>>)

\* the write of Encode through a descriptor opened by os.Create: the bytes
\* go to the start of the file, whatever another descriptor wrote since
WriteFile(file, data) ==
    IF data = <<>> THEN file
    ELSE [exists |-> TRUE, data |-> data,
          tail |-> IF FileSize(file) > TextSize(data)
                     THEN FileSize(file) - TextSize(data) ELSE 0]

\* SaveMetricsToFile running alone on the store
SaveMetricsToFile(st, go, co) ==
    WriteFile(Truncate(NoFile), Encode(saveRecords(fileGetAll(st, go, co))))

\* the files a save of the store can leave, over the orders of the map ranges
SavedFiles(st) ==
    {SaveMetricsToFile(st, go, co) :
        go \in Orders(DOMAIN st.gauge), co \in Orders(DOMAIN st.counter)}

\* fault variant: a counter of the file replaces the store's value
RECURSIVE loadAll_SetCounter(_, _)
loadAll_SetCounter(st, objs) ==
    IF objs = <<>> THEN st
    ELSE LET o == Head(objs)
             next == IF o.type = "gauge" /\ o.value # <<>>
                       THEN Store(MapSet(st.gauge, o.id, ParseFloat64(o.value[1])),
                                  st.counter)
                     ELSE IF o.type = "counter" /\ o.delta # <<>>
                       THEN Store(st.gauge,
                                  MapSet(st.counter, o.id, ParseInt(o.delta[1])))
                     ELSE st
         IN loadAll_SetCounter(next, Tail(objs))

\* the loop of LoadMetricsFromFile over the decoded array
RECURSIVE loadAll(_, _)
loadAll(st, objs) ==
    IF objs = <<>> THEN st
    ELSE LET o == Head(objs)
             next == IF o.type = "gauge" /\ o.value # <<>>
                       THEN Store(MapSet(st.gauge, o.id, ParseFloat64(o.value[1])),
                                  st.counter)
                     ELSE IF o.type = "counter" /\ o.delta # <<>>
                       THEN Store(st.gauge,
                                  MapSet(st.counter, o.id,
                                         Load(st.counter, o.id) + ParseInt(o.delta[1])))
                     ELSE st
         IN loadAll(next, Tail(objs))

\* json.Unmarshal accepts the file: one JSON text, followed by nothing or by
\* the newline an earlier write left
Decodes(file) == file.exists /\ file.data # <<>> /\ file.tail <= 1

\* LoadMetricsFromFile: an open or decoding error leaves the store as it is
LoadMetricsFromFile(st, file) ==
    IF ~Decodes(file) THEN st
    ELSE loadAll(st, file.data[1].items)

\* the routes that write the store and whether NewRouter wraps them with a
\* save when storeInterval is 0
UpdatePaths == {"update", "param", "updates", "rpc"}

SavesAfter(path) == path = "update"

\* the goroutines that call SaveMetricsToFile: two requests served at the same
\* time, the ticker goroutine, and run after the signal
RequestSavers == {"request1", "request2"}

Savers == RequestSavers \cup {"ticker", "run"}

\* a SaveMetricsToFile call: where it is, the metrics GetAll returned to it,
\* and the store they were read from
Saving(at, infos, read) == [pc |-> at, infos |-> infos, read |-> read]

NotSaving == Saving("idle", <<>>, Store(EmptyMap, EmptyMap))

\* the process runs; the listener accepts requests until srv.Shutdown closes
\* it and run returns
Listening == fpc \in {"serving", "saving", "saved"}

\* a request is served: the handler applies the update under the store's lock
\* and answers, or rejects the request; with storeInterval 0 the wrapper of
\* POST /update goes on to SaveMetricsToFile whatever the answer was
routeUpdate(h) ==
    /\ Listening
    /\ fsavers[h].pc = "idle"
    /\ fmuts < MaxUpdates
    /\ fmuts' = fmuts + 1
    /\ \E path \in UpdatePaths :
         \E u \in RequestsOf(path) :
            /\ fstore' = fileApply(fstore, u)
            /\ fsavers' = [fsavers EXCEPT
                             ![h].pc = IF storeInterval = 0 /\ SavesAfter(path)
                                         THEN "getall" ELSE "idle"]
    /\ UNCHANGED <<storeInterval, fpc, ffile, frestored, fsaved>>

\* SaveMetricsToFile of the wrapper: metrics := storage.GetAll(), under the
\* store's read lock, which is released on return
routeSave(h) ==
    /\ fsavers[h].pc = "getall"
    /\ Listening
    /\ \E go \in Orders(DOMAIN fstore.gauge),
          co \in Orders(DOMAIN fstore.counter) :
         fsavers' = [fsavers EXCEPT
                       ![h] = Saving("create", fileGetAll(fstore, go, co),
                                     fstore)]
    /\ UNCHANGED <<storeInterval, fpc, fstore, ffile, fmuts, frestored, fsaved>>

\* a tick of the ticker goroutine of a positive storeInterval:
\* SaveMetricsToFile starts with storage.GetAll()
tickerSave ==
    /\ Listening
    /\ storeInterval > 0
    /\ fsavers["ticker"].pc = "idle"
    /\ \E go \in Orders(DOMAIN fstore.gauge),
          co \in Orders(DOMAIN fstore.counter) :
         fsavers' = [fsavers EXCEPT
                       !["ticker"] = Saving("create",
                                            fileGetAll(fstore, go, co), fstore)]
    /\ UNCHANGED <<storeInterval, fpc, fstore, ffile, fmuts, frestored, fsaved>>

\* the server is signalled: run calls SaveMetricsToFile, which starts with
\* storage.GetAll(); the listener is still open
shutdownSave ==
    /\ fpc = "serving"
    /\ \E go \in Orders(DOMAIN fstore.gauge),
          co \in Orders(DOMAIN fstore.counter) :
         fsavers' = [fsavers EXCEPT
                       !["run"] = Saving("create", fileGetAll(fstore, go, co),
                                         fstore)]
    /\ fpc' = "saving"
    /\ UNCHANGED <<storeInterval, fstore, ffile, fmuts, frestored, fsaved>>

\* the save returns to its caller; run goes on to srv.Shutdown
saveReturn(s) ==
    [fsavers EXCEPT ![s] = NotSaving]

\* f, err := os.Create(filePath): the file is truncated, or the call fails and
\* SaveMetricsToFile returns the error, which its caller logs
fileCreate(s) ==
    /\ fsavers[s].pc = "create"
    /\ Listening
    /\ \E created \in BOOLEAN :
         IF created
           THEN /\ ffile' = Truncate(ffile)
                /\ fsavers' = [fsavers EXCEPT ![s].pc = "encode"]
                /\ UNCHANGED fpc
           ELSE /\ fsavers' = saveReturn(s)
                /\ fpc' = IF s = "run" THEN "saved" ELSE fpc
                /\ UNCHANGED ffile
    /\ UNCHANGED <<storeInterval, fstore, fmuts, frestored, fsaved>>

\* enc.Encode(out) writes the text through f, f is closed and
\* SaveMetricsToFile returns
fileEncode(s) ==
    /\ fsavers[s].pc = "encode"
    /\ Listening
    /\ ffile' = WriteFile(ffile, Encode(saveRecords(fsavers[s].infos)))
    /\ fsaved' = fsavers[s].read
    /\ fsavers' = saveReturn(s)
    /\ fpc' = IF s = "run" THEN "saved" ELSE fpc
    /\ UNCHANGED <<storeInterval, fstore, fmuts, frestored>>

\* srv.Shutdown(ctx): the listener is closed and the requests in flight are
\* waited for, for five seconds at most; run returns and the process ends
\* with the ticker goroutine, and a request that outlasts the wait, where
\* they are
srvShutdown ==
    /\ fpc = "saved"
    /\ fpc' = "stopped"
    /\ UNCHANGED <<storeInterval, fstore, ffile, fmuts, frestored, fsaved,
                   fsavers>>

\* the server starts again with a new store and restores it from the file
restore ==
    /\ fpc = "stopped"
    /\ frestored' = LoadMetricsFromFile(Store(EmptyMap, EmptyMap), ffile)
    /\ fpc' = "restored"
    /\ UNCHANGED <<storeInterval, fstore, ffile, fmuts, fsaved, fsavers>>

FileStart(k, interval) ==
    /\ storeInterval = interval
    /\ fpc = k
    /\ fstore = Store(EmptyMap, EmptyMap)
    /\ ffile = NoFile
    /\ fmuts = 0
    /\ frestored = Store(EmptyMap, EmptyMap)
    /\ fsaved = Store(EmptyMap, EmptyMap)
    /\ fsavers = [s \in Savers |-> NotSaving]

FileParked == FileStart("off", 0)

\* =========================================================================
\* Update requests served at the same time: Handler.HandleUpdate with
\* repository.SyncToDB, one goroutine per request
\* =========================================================================

\* the goroutines net/http serves two requests on
Handlers == {1, 2}

\* the updates the requests carry: a gauge and a counter of different names
ConcurrentEntries ==
    {Entry("m1", "gauge", <<250>>), Entry("m1", "gauge", <<-5>>),
     Entry("m2", "counter", <<7>>)}

IdleSync == [pc |-> "idle", e |-> Entry("", "", <<>>), infos |-> <<>>,
             attempt |-> 0, resp |-> NoResp]

\* HandleUpdate up to the sync: the input is valid, SetGauge or AddCounter
\* runs under the store's lock
concurrentUpdate(p) ==
    /\ syncCall[p].pc = "idle"
    /\ hdb
    /\ \E e \in ConcurrentEntries :
         /\ gauge' = ApplyEntry(Store(gauge, counter), e).gauge
         /\ counter' = ApplyEntry(Store(gauge, counter), e).counter
         /\ syncCall' = [syncCall EXCEPT ![p].pc = "getall", ![p].e = e]
    /\ UNCHANGED dbTable

\* SyncToDB's operation starts: metrics := storage.GetAll(), under the
\* store's read lock
concurrentGetAll(p) ==
    /\ syncCall[p].pc = "getall"
    /\ \E go \in Orders(DOMAIN gauge), co \in Orders(DOMAIN counter) :
         syncCall' = [syncCall EXCEPT
                        ![p].pc = "tx",
                        ![p].infos = Snapshot(Store(gauge, counter), go, co),
                        ![p].attempt = @ + 1]
    /\ UNCHANGED <<gauge, counter, dbTable>>

\* the transaction of one attempt: Begin, one upsert per metric of the
\* snapshot, Commit.  Committed, the handler publishes the audit event and
\* writes 200; failed with a retriable error, the operation runs again after
\* the wait; failed otherwise, the handler answers 500
concurrentTx(p) ==
    /\ syncCall[p].pc = "tx"
    /\ \E o \in TxOutcomes :
         /\ o.stage = "exec" => syncCall[p].infos # <<>>
         /\ dbTable' = TxResult(dbTable, syncCall[p].infos, o)
         /\ syncCall' =
              [syncCall EXCEPT
                 ![p].pc = IF o.err = Nil THEN "done"
                           ELSE IF /\ isRetriableError(o.err)
                                   /\ syncCall[p].attempt < Len(retryIntervals)
                             THEN "getall" ELSE "done",
                 ![p].resp = IF o.err = Nil THEN Resp(StatusOK, "")
                             ELSE IF /\ isRetriableError(o.err)
                                     /\ syncCall[p].attempt
                                          < Len(retryIntervals)
                               THEN NoResp ELSE InternalError("param")]
    /\ UNCHANGED <<gauge, counter>>

SyncStart == syncCall = [p \in Handlers |-> IdleSync]

\* no concurrent requests (the other specifications)
SyncParked == SyncStart

\* =========================================================================
\* The agent's MetricsCollector: collectMetrics, collectSystemMetrics and
\* buildBatchSnapshot under Collector.mu
\* =========================================================================

\* two of the runtime.MemStats gauges collectMetrics stores stand for all
RuntimeGauges == {"Alloc", "Sys"}

\* the keys one collectMetrics pass writes
PassKeys == RuntimeGauges \cup {"PollCount", "RandomValue"}

\* Metric{type, value}; a gauge sampled in pass n is given the value n
Metric(t, v) == [type |-> t, value |-> v]

\* the mutex is free for a writer
Unlocked == cmu.writer = "" /\ cmu.readers = {}

\* fault variant: collectMetrics writes without taking the lock
collectLock_NoLock ==
    /\ cpc.poll = "idle"
    /\ pollCount < MaxPasses
    /\ cpc' = [cpc EXCEPT !.poll = "range"]
    /\ UNCHANGED <<cmu, cmetrics, cbatch, pollCount>>
    /\ UNCHANGED deliveryVars

\* collectMetrics: state.Collector.mu.Lock()
collectLock ==
    /\ cpc.poll = "idle"
    /\ pollCount < MaxPasses
    /\ Unlocked
    /\ cmu' = [cmu EXCEPT !.writer = "poll"]
    /\ cpc' = [cpc EXCEPT !.poll = "range"]
    /\ UNCHANGED <<cmetrics, cbatch, pollCount>>
    /\ UNCHANGED deliveryVars

\* the running pass has stored key k
Stored(k) == k \in DOMAIN cmetrics /\ cmetrics[k].value = pollCount + 1

\* one iteration of the loop over the sampled map, in the map's order
collectStore ==
    /\ cpc.poll = "range"
    /\ \E k \in RuntimeGauges :
         /\ ~Stored(k)
         /\ cmetrics' = MapSet(cmetrics, k, Metric("gauge", pollCount + 1))
         /\ cpc' = [cpc EXCEPT !.poll =
                      IF \A j \in RuntimeGauges \ {k} : Stored(j)
                        THEN "count" ELSE "range"]
    /\ UNCHANGED <<cmu, cbatch, pollCount>>
    /\ UNCHANGED deliveryVars

\* pollCount++ and metrics["PollCount"] = Metric{"counter", pollCount}
collectCount ==
    /\ cpc.poll = "count"
    /\ pollCount' = pollCount + 1
    /\ cmetrics' = MapSet(cmetrics, "PollCount",
                          Metric("counter", pollCount + 1))
    /\ cpc' = [cpc EXCEPT !.poll = "random"]
    /\ UNCHANGED <<cmu, cbatch>>
    /\ UNCHANGED deliveryVars

\* metrics["RandomValue"] = Metric{"gauge", rng.Float64() * 100}
collectRandom ==
    /\ cpc.poll = "random"
    /\ cmetrics' = MapSet(cmetrics, "RandomValue", Metric("gauge", pollCount))
    /\ cpc' = [cpc EXCEPT !.poll = "unlock"]
    /\ UNCHANGED <<cmu, cbatch, pollCount>>
    /\ UNCHANGED deliveryVars

\* the deferred state.Collector.mu.Unlock()
collectUnlock ==
    /\ cpc.poll = "unlock"
    /\ cmu' = [cmu EXCEPT !.writer = ""]
    /\ cpc' = [cpc EXCEPT !.poll = "idle"]
    /\ UNCHANGED <<cmetrics, cbatch, pollCount>>
    /\ UNCHANGED deliveryVars

\* collectSystemMetrics: c.mu.Lock() once the updates are gathered
systemLock ==
    /\ cpc.sys = "idle"
    /\ "TotalMemory" \notin DOMAIN cmetrics
    /\ Unlocked
    /\ cmu' = [cmu EXCEPT !.writer = "sys"]
    /\ cpc' = [cpc EXCEPT !.sys = "store"]
    /\ UNCHANGED <<cmetrics, cbatch, pollCount>>
    /\ UNCHANGED deliveryVars

\* the updates are copied into the map and the lock is released
systemStore ==
    /\ cpc.sys = "store"
    /\ cmetrics' = MapSet(cmetrics, "TotalMemory", Metric("gauge", 0))
    /\ cmu' = [cmu EXCEPT !.writer = ""]
    /\ cpc' = [cpc EXCEPT !.sys = "idle"]
    /\ UNCHANGED <<cbatch, pollCount>>
    /\ UNCHANGED deliveryVars

\* buildBatchSnapshot: state.Collector.mu.RLock(), an empty batch is made
snapshotRLock ==
    /\ cpc.main = "idle"
    /\ cpc.builds < MaxBuilds
    /\ cmu.writer = ""
    /\ cmu' = [cmu EXCEPT !.readers = @ \cup {"main"}]
    /\ cbatch' = EmptyMap
    /\ cpc' = [cpc EXCEPT !.main = "range", !.builds = @ + 1]
    /\ UNCHANGED <<cmetrics, pollCount>>
    /\ UNCHANGED deliveryVars

\* one iteration of the loop over the collector's map: the entry is appended
\* with the value the map holds now
snapshotEntry ==
    /\ cpc.main = "range"
    /\ \E k \in DOMAIN cmetrics \ DOMAIN cbatch :
         cbatch' = MapSet(cbatch, k, cmetrics[k])
    /\ UNCHANGED <<cmu, cmetrics, cpc, pollCount>>
    /\ UNCHANGED deliveryVars

\* the loop has visited every key; the deferred RUnlock runs and the batch
\* is returned
snapshotReturn ==
    /\ cpc.main = "range"
    /\ DOMAIN cmetrics \subseteq DOMAIN cbatch
    /\ cmu' = [cmu EXCEPT !.readers = @ \ {"main"}]
    /\ cpc' = [cpc EXCEPT !.main = "built"]
    /\ UNCHANGED <<cmetrics, cbatch, pollCount>>
    /\ UNCHANGED deliveryVars

\* ---- the built batch is sent and the server applies it
\* HandlerUpdateBatchJSON: AddCounter(id, delta) for every counter entry of
\* the batch (the gauges of the server are not kept)
batchCounters(c, batch) ==
    LET cs == {k \in DOMAIN batch : batch[k].type = "counter"}
    IN [k \in DOMAIN c \cup cs |->
           Load(c, k) + (IF k \in cs THEN batch[k].value ELSE 0)]

Call(n, batch) == [call |-> n, batch |-> batch, posts |-> 0, ok |-> FALSE]

Post(n, batch) == [call |-> n, batch |-> batch]

Without(seq, i) == SubSeq(seq, 1, i - 1) \o SubSeq(seq, i + 1, Len(seq))

\* the report loop: if len(batch) == 0 { continue }
batchEmpty ==
    /\ cpc.main = "built"
    /\ cbatch = EmptyMap
    /\ cpc' = [cpc EXCEPT !.main = "idle"]
    /\ UNCHANGED <<cmu, cmetrics, cbatch, pollCount, deliveryVars>>

\* state.jobQueue <- batch: the worker (RateLimit 1) receives the batch and
\* calls SendBatch; main goes back to its select
handoffBatch ==
    /\ cpc.main = "built"
    /\ cbatch # EmptyMap
    /\ csend = <<>>
    /\ csend' = <<Call(cpc.builds, cbatch)>>
    /\ cpc' = [cpc EXCEPT !.main = "idle"]
    /\ UNCHANGED <<cmu, cmetrics, cbatch, pollCount, cnet, cdelivered,
                   srvCounter>>

\* req.Post("/updates/"): the request leaves the agent; the resty client
\* posts again when no response arrived (SetRetryCount(3): up to four posts,
\* of which the model takes MaxPosts)
postBatch ==
    /\ csend # <<>>
    /\ ~csend[1].ok
    /\ csend[1].posts < MaxPosts
    /\ cnet' = Append(cnet, Post(csend[1].call, csend[1].batch))
    /\ csend' = <<[csend[1] EXCEPT !.posts = @ + 1]>>
    /\ UNCHANGED <<cmu, cmetrics, cpc, cbatch, pollCount, cdelivered,
                   srvCounter>>

\* what becomes of a POST: it never reaches the handler or is rejected
\* before the loop ("lost"); the handler applies it and the agent sees no
\* 200, the sync having failed or the response being lost or late
\* ("applied"); the handler applies it and its 200 reaches the call that
\* posted it ("answered")
PostFates(post) ==
    {"lost", "applied"}
    \cup (IF csend # <<>> /\ csend[1].call = post.call
            THEN {"answered"} ELSE {})

\* the server handles one of the POSTs, in any order
serverHandle ==
    /\ \E i \in 1..Len(cnet) :
         \E fate \in PostFates(cnet[i]) :
            /\ cnet' = Without(cnet, i)
            /\ srvCounter' = IF fate = "lost" THEN srvCounter
                             ELSE batchCounters(srvCounter, cnet[i].batch)
            /\ csend' = IF fate = "answered"
                          THEN <<[csend[1] EXCEPT !.ok = TRUE]>> ELSE csend
    /\ UNCHANGED <<cmu, cmetrics, cpc, cbatch, pollCount, cdelivered>>

\* SendBatch returns to the worker: nil when a 200 arrived, otherwise an
\* error, which the worker logs
sendReturn ==
    /\ csend # <<>>
    /\ cdelivered' = IF csend[1].ok THEN <<csend[1].batch>> ELSE cdelivered
    /\ csend' = <<>>
    /\ UNCHANGED <<cmu, cmetrics, cpc, cbatch, pollCount, cnet, srvCounter>>

CollectorStart(k) ==
    /\ cmu = [writer |-> "", readers |-> {}]
    /\ cmetrics = EmptyMap
    /\ cpc = [poll |-> k, sys |-> k, main |-> k, builds |-> 0]
    /\ cbatch = EmptyMap
    /\ csend = <<>>
    /\ cnet = <<>>
    /\ cdelivered = <<>>
    /\ srvCounter = EmptyMap

\* no collector is running (the other specifications)
CollectorParked == CollectorStart("off")

\* =========================================================================
\* repository.LoadMetricsFromFile on a store that holds metrics
\* =========================================================================

\* the stores a load starts from and the stores a file was saved from
LoadGauges ==
    {EmptyMap, MapSet(EmptyMap, "m1", Float(250)),
     MapSet(MapSet(EmptyMap, "m1", Float(-5)), "m2", Float(250))}

LoadCounters ==
    {EmptyMap, MapSet(EmptyMap, "m1", 7),
     MapSet(MapSet(EmptyMap, "m1", -3), "m2", 7)}

LoadStores == {Store(g, c) : g \in LoadGauges, c \in LoadCounters}

\* LoadMetricsFromFile(storage, filePath) is called on the store once more
loadAgain ==
    /\ fpc = "loading"
    /\ fmuts < MaxLoads
    /\ fmuts' = fmuts + 1
    /\ frestored' = LoadMetricsFromFile(frestored, ffile)
    /\ UNCHANGED <<storeInterval, fpc, fstore, ffile, fsaved, fsavers>>

\* ---------------------------------------------------------- specifications

Init ==
    /\ \E rl \in (-1)..MaxRateLimit : AgentStart(rl)
    /\ RetryParked
    /\ StoreParked
    /\ ServerParked
    /\ AuditParked
    /\ GateParked
    /\ SendParked
    /\ FileParked
    /\ SyncParked
    /\ CollectorParked

Next ==
    \/ (startWorkerPool /\ UNCHANGED notAgent)
    \/ (collectMetrics /\ UNCHANGED notAgent)
    \/ (collectSystemMetrics /\ UNCHANGED notAgent)
    \/ (pollExit /\ UNCHANGED notAgent)
    \/ (sysExit /\ UNCHANGED notAgent)
    \/ (signal /\ UNCHANGED notAgent)
    \/ (reportTick /\ UNCHANGED notAgent)
    \/ (\E w \in Workers : handoff(w) /\ UNCHANGED notAgent)
    \/ (\E w \in Workers : workerSend(w) /\ UNCHANGED notAgent)
    \/ (\E w \in Workers : sendBatchReturn(w) /\ UNCHANGED notAgent)
    \/ (\E w \in Workers : workerExit(w) /\ UNCHANGED notAgent)
    \/ (shutdownFinal /\ UNCHANGED notAgent)
    \/ (shutdownCancel /\ UNCHANGED notAgent)
    \/ (shutdownClose /\ UNCHANGED notAgent)
    \/ (shutdownWait /\ UNCHANGED notAgent)

Spec == Init /\ [][Next]_vars

\* ------------------------------------------------------------ SpecShutdown
\* the agent with the scheduling its code relies on: a goroutine that can
\* take its next step eventually takes it (main at a pending signal and in
\* the shutdown branch, a
\* worker at its receive, at its SendBatch call and at the end of its range),
\* and a SendBatch call that was made eventually returns.  The timers and the
\* signal are the environment's and get no fairness.
Fairness ==
    /\ WF_vars(startWorkerPool /\ UNCHANGED notAgent)
    /\ WF_vars(\E w \in Workers : handoff(w) /\ UNCHANGED notAgent)
    /\ WF_vars(\E w \in Workers : workerSend(w) /\ UNCHANGED notAgent)
    /\ WF_vars(\E w \in Workers : sendBatchReturn(w) /\ UNCHANGED notAgent)
    /\ WF_vars(\E w \in Workers : workerExit(w) /\ UNCHANGED notAgent)
    /\ WF_vars(shutdownFinal /\ UNCHANGED notAgent)
    /\ WF_vars(shutdownCancel /\ UNCHANGED notAgent)
    /\ WF_vars(shutdownClose /\ UNCHANGED notAgent)
    /\ WF_vars(shutdownWait /\ UNCHANGED notAgent)

\* the agent is started with RateLimit 0 (raised to 1 worker) or more
InitShutdown ==
    /\ \E rl \in 0..MaxShutdownRate : AgentStart(rl)
    /\ RetryParked
    /\ StoreParked
    /\ ServerParked
    /\ AuditParked
    /\ GateParked
    /\ SendParked
    /\ FileParked
    /\ SyncParked
    /\ CollectorParked

\* the report ticker fires up to MaxShutdownReports times before the signal
NextShutdown ==
    \/ (startWorkerPool /\ UNCHANGED notAgent)
    \/ (collectMetrics /\ UNCHANGED notAgent)
    \/ (collectSystemMetrics /\ UNCHANGED notAgent)
    \/ (pollExit /\ UNCHANGED notAgent)
    \/ (sysExit /\ UNCHANGED notAgent)
    \/ (signal /\ UNCHANGED notAgent)
    \/ (Len(built) < MaxShutdownReports /\ reportTick /\ UNCHANGED notAgent)
    \/ (\E w \in Workers : handoff(w) /\ UNCHANGED notAgent)
    \/ (\E w \in Workers : workerSend(w) /\ UNCHANGED notAgent)
    \/ (\E w \in Workers : sendBatchReturn(w) /\ UNCHANGED notAgent)
    \/ (\E w \in Workers : workerExit(w) /\ UNCHANGED notAgent)
    \/ (shutdownFinal /\ UNCHANGED notAgent)
    \/ (shutdownCancel /\ UNCHANGED notAgent)
    \/ (shutdownClose /\ UNCHANGED notAgent)
    \/ (shutdownWait /\ UNCHANGED notAgent)

SpecShutdown == InitShutdown /\ [][NextShutdown]_vars /\ Fairness

InitRetry ==
    /\ AgentStart(1)
    /\ StoreParked
    /\ ServerParked
    /\ AuditParked
    /\ GateParked
    /\ SendParked
    /\ FileParked
    /\ SyncParked
    /\ CollectorParked
    /\ \E c \in {"direct", "http", "grpc"} :
         \E sc \in [1..MaxScript -> RawOf(c)] : RetryStart(c, sc)

NextRetry ==
    \/ (RetryAttempt /\ UNCHANGED notRetry)
    \/ (TimerFire /\ UNCHANGED notRetry)
    \/ (CtxCancel /\ UNCHANGED notRetry)
    \/ (RetrySelectDone /\ UNCHANGED notRetry)
    \/ (RetrySelectTimer /\ UNCHANGED notRetry)

SpecRetry == InitRetry /\ [][NextRetry]_vars

InitStore ==
    /\ AgentStart(1)
    /\ RetryParked
    /\ StoreStart(MaxCallers)
    /\ ServerParked
    /\ AuditParked
    /\ GateParked
    /\ SendParked
    /\ FileParked
    /\ SyncParked
    /\ CollectorParked

NextStore ==
    \/ (\E p \in Callers : storeCall(p) /\ UNCHANGED notStore)
    \/ (\E p \in Callers : Lock(p) /\ UNCHANGED notStore)
    \/ (\E p \in Callers : RLock(p) /\ UNCHANGED notStore)
    \/ (\E p \in Callers : storeLoad(p) /\ UNCHANGED notStore)
    \/ (\E p \in Callers : SetGauge(p) /\ UNCHANGED notStore)
    \/ (\E p \in Callers : AddCounter(p) /\ UNCHANGED notStore)
    \/ (\E p \in Callers : GetGauge(p) /\ UNCHANGED notStore)
    \/ (\E p \in Callers : GetCounter(p) /\ UNCHANGED notStore)
    \/ (\E p \in Callers : GetAll(p) /\ UNCHANGED notStore)

SpecStore == InitStore /\ [][NextStore]_vars

InitServer ==
    /\ AgentStart(1)
    /\ RetryParked
    /\ \E st \in PriorStores :
         /\ StoreHolds(st)
         /\ \E key \in {"", "secret"}, db \in BOOLEAN :
              \E table \in (IF db THEN SyncedTables(st) ELSE {EmptyMap}) :
                 ServerStart(key, db, table)
    /\ AuditParked
    /\ GateParked
    /\ SendParked
    /\ FileParked
    /\ SyncParked
    /\ CollectorParked

NextServer ==
    \/ (handlerReceive /\ UNCHANGED notServer)
    \/ (handlerVerify /\ UNCHANGED notServer)
    \/ (handlerApply /\ UNCHANGED notServer)
    \/ (handlerLoopEnd /\ UNCHANGED notServer)
    \/ (syncGetAll /\ UNCHANGED notServer)
    \/ (syncTx /\ UNCHANGED notServer)
    \/ (SyncExhausted /\ UNCHANGED notServer)
    \/ (SyncCancelled /\ UNCHANGED notServer)
    \/ (writeResponse /\ UNCHANGED notServer)
    \/ (sendAuditEvent /\ UNCHANGED notServer)

SpecServer == InitServer /\ [][NextServer]_vars

\* -------------------------------------------------------------- SpecAudit
InitAudit ==
    /\ AgentStart(1)
    /\ RetryParked
    /\ StoreParked
    /\ ServerParked
    /\ AuditStart("setup")
    /\ \E st \in PriorStores : astore = st /\ astore0 = st
    /\ GateParked
    /\ SendParked
    /\ FileParked
    /\ SyncParked
    /\ CollectorParked

NextAudit ==
    \/ (\E o \in Observers :
          /\ \A i \in 1..Len(observers) : observers[i] # o
          /\ Attach(o) /\ UNCHANGED notAudit)
    \/ (auditServe /\ UNCHANGED notAudit)
    \/ (auditedRequest /\ UNCHANGED notAudit)
    \/ (OnAuditEvent /\ UNCHANGED notAudit)
    \/ (NotifyReturn /\ UNCHANGED notAudit)
    \/ (auditedReturn /\ UNCHANGED notAudit)

SpecAudit == InitAudit /\ [][NextAudit]_vars

\* ------------------------------------------------------------- SpecManager
\* the manager on its own: any sequence of Attach, Detach and HasObservers
InitManager ==
    /\ AgentStart(1)
    /\ RetryParked
    /\ StoreParked
    /\ ServerParked
    /\ AuditStart("setup")
    /\ astore = Store(EmptyMap, EmptyMap)
    /\ astore0 = Store(EmptyMap, EmptyMap)
    /\ GateParked
    /\ SendParked
    /\ FileParked
    /\ SyncParked
    /\ CollectorParked

NextManager ==
    \/ (\E o \in Observers : Attach(o) /\ UNCHANGED notAudit)
    \/ (\E o \in Observers : Detach(o) /\ UNCHANGED notAudit)
    \/ (HasObservers /\ UNCHANGED notAudit)

SpecManager == InitManager /\ [][NextManager]_vars

\* --------------------------------------------------------------- SpecGate
InitGate ==
    /\ AgentStart(1)
    /\ RetryParked
    /\ StoreParked
    /\ ServerParked
    /\ AuditParked
    /\ \E subnet \in Subnets : GateStart("idle", subnet)
    /\ SendParked
    /\ FileParked
    /\ SyncParked
    /\ CollectorParked

NextGate ==
    \/ (rpcCall /\ UNCHANGED notGate)
    \/ (IPSubnetInterceptor /\ UNCHANGED notGate)
    \/ (gateHandler /\ UNCHANGED notGate)

SpecGate == InitGate /\ [][NextGate]_vars

\* --------------------------------------------------------------- SpecSend
InitSend ==
    /\ AgentStart(1)
    /\ RetryParked
    /\ StoreParked
    /\ ServerParked
    /\ AuditParked
    /\ GateParked
    /\ \E key \in {"", "secret"}, crypto \in BOOLEAN, serverKey \in {"", "secret"} :
         SendStart(key, crypto, serverKey)
    /\ FileParked
    /\ SyncParked
    /\ CollectorParked

NextSend ==
    \/ (\E p \in Senders : sendBatchBegin(p) /\ UNCHANGED notSend)
    \/ (\E p \in Senders : bufPoolGet(p) /\ UNCHANGED notSend)
    \/ (\E p \in Senders : gzipPoolGet(p) /\ UNCHANGED notSend)
    \/ (\E p \in Senders : sendBatchPrepare(p) /\ UNCHANGED notSend)
    \/ (\E p \in Senders : sendBatchPost(p) /\ UNCHANGED notSend)
    \/ (\E p \in Senders : gzipPoolPut(p) /\ UNCHANGED notSend)
    \/ (\E p \in Senders : bufPoolPut(p) /\ UNCHANGED notSend)

SpecSend == InitSend /\ [][NextSend]_vars

\* --------------------------------------------------------------- SpecFile
InitFile ==
    /\ AgentStart(1)
    /\ RetryParked
    /\ StoreParked
    /\ ServerParked
    /\ AuditParked
    /\ GateParked
    /\ SendParked
    /\ \E interval \in {0, 300} : FileStart("serving", interval)
    /\ SyncParked
    /\ CollectorParked

NextFile ==
    \/ (\E h \in RequestSavers : routeUpdate(h) /\ UNCHANGED notFile)
    \/ (\E h \in RequestSavers : routeSave(h) /\ UNCHANGED notFile)
    \/ (tickerSave /\ UNCHANGED notFile)
    \/ (shutdownSave /\ UNCHANGED notFile)
    \/ (\E s \in Savers : fileCreate(s) /\ UNCHANGED notFile)
    \/ (\E s \in Savers : fileEncode(s) /\ UNCHANGED notFile)
    \/ (srvShutdown /\ UNCHANGED notFile)
    \/ (restore /\ UNCHANGED notFile)

SpecFile == InitFile /\ [][NextFile]_vars

\* --------------------------------------------------------------- SpecSync
InitSync ==
    /\ AgentStart(1)
    /\ RetryParked
    /\ StoreHolds(Store(EmptyMap, EmptyMap))
    /\ ServerStart("", TRUE, EmptyMap)
    /\ AuditParked
    /\ GateParked
    /\ SendParked
    /\ FileParked
    /\ SyncStart
    /\ CollectorParked

NextSync ==
    \/ (\E p \in Handlers : concurrentUpdate(p) /\ UNCHANGED notSync)
    \/ (\E p \in Handlers : concurrentGetAll(p) /\ UNCHANGED notSync)
    \/ (\E p \in Handlers : concurrentTx(p) /\ UNCHANGED notSync)

SpecSync == InitSync /\ [][NextSync]_vars

\* ---------------------------------------------------------- SpecCollector
InitCollector ==
    /\ AgentStart(1)
    /\ RetryParked
    /\ StoreParked
    /\ ServerParked
    /\ AuditParked
    /\ GateParked
    /\ SendParked
    /\ FileParked
    /\ SyncParked
    /\ CollectorStart("idle")

NextCollector ==
    \/ (collectLock /\ UNCHANGED notCollector)
    \/ (collectStore /\ UNCHANGED notCollector)
    \/ (collectCount /\ UNCHANGED notCollector)
    \/ (collectRandom /\ UNCHANGED notCollector)
    \/ (collectUnlock /\ UNCHANGED notCollector)
    \/ (systemLock /\ UNCHANGED notCollector)
    \/ (systemStore /\ UNCHANGED notCollector)
    \/ (snapshotRLock /\ UNCHANGED notCollector)
    \/ (snapshotEntry /\ UNCHANGED notCollector)
    \/ (snapshotReturn /\ UNCHANGED notCollector)
    \/ (batchEmpty /\ UNCHANGED notCollector)
    \/ (handoffBatch /\ UNCHANGED notCollector)
    \/ (postBatch /\ UNCHANGED notCollector)
    \/ (serverHandle /\ UNCHANGED notCollector)
    \/ (sendReturn /\ UNCHANGED notCollector)

SpecCollector == InitCollector /\ [][NextCollector]_vars


\* --------------------------------------------------------------- SpecLoad
\* fstore is the store before the first load, fsaved the store the file was
\* saved from, frestored the store the loads act on, fmuts the loads so far
InitLoad ==
    /\ AgentStart(1)
    /\ RetryParked
    /\ StoreParked
    /\ ServerParked
    /\ AuditParked
    /\ GateParked
    /\ SendParked
    /\ storeInterval = 0
    /\ fpc = "loading"
    /\ fmuts = 0
    /\ fstore \in LoadStores
    /\ frestored = fstore
    /\ fsaved \in LoadStores
    /\ ffile \in SavedFiles(fsaved)
    /\ fsavers = [s \in Savers |-> NotSaving]
    /\ SyncParked
    /\ CollectorParked

NextLoad ==
    \/ (loadAgain /\ UNCHANGED notFile)

SpecLoad == InitLoad /\ [][NextLoad]_vars

\* =========================================================================
\* Properties of the dispatcher (Spec)
\* =========================================================================

AllExited == \A w \in Workers : worker[w] = "exited"

\* SendBatch calls that have been entered and have not returned
InProgress == {id \in Ids : calls[id] > returned[id]}

Max(a, b) == IF a >= b THEN a ELSE b

IsPrefix(s, t) == Len(s) <= Len(t) /\ SubSeq(t, 1, Len(s)) = s

\* C1 as stated: when shutdown has returned, the final batch built at shutdown
\* was taken by a worker and its SendBatch call has returned, and every worker
\* has exited.
C1_FinalAlwaysSent ==
    pc = "done" =>
        /\ finalId # 0
        /\ taken[finalId] = 1
        /\ returned[finalId] = 1
        /\ AllExited

\* C1 amended: when shutdown has returned, every worker has exited, and the
\* final batch, which is enqueued only when the final snapshot is not empty,
\* was taken by one worker and its one SendBatch call has returned.
C1_FinalSentWhenNonEmpty ==
    pc = "done" =>
        /\ finalBuilt
        /\ AllExited
        /\ wg = 0
        /\ finalId # 0 =>
             /\ built[finalId].final
             /\ taken[finalId] = 1
             /\ calls[finalId] = 1
             /\ returned[finalId] = 1

C1_Witness ==
    /\ pc = "done"
    /\ finalId # 0
    /\ returned[finalId] = 1
    /\ Len(worker) = 2

\* C2 as stated: the sampling timers are cancelled before the final batch is
\* built and enqueued.
C2_CancelBeforeFinal == finalBuilt => (pollCancelled /\ sysCancelled)

\* C2 amended: shutdown runs (1) build the final batch and, unless it is empty,
\* enqueue it, (2) cancel the sampling timers, (3) close the job queue,
\* (4) wait until every worker has finished its send and exited; each phase
\* starts only after the one before it has completed.
C2_ShutdownOrder ==
    /\ IsPrefix(shutdownLog, <<"final", "cancel", "close", "drained">>)
    /\ (pollCancelled \/ sysCancelled) =>
          /\ finalBuilt
          /\ pending = 0
          /\ finalId # 0 => finalId \in enqueued
    /\ closed => (pollCancelled /\ sysCancelled)
    /\ pc = "done" => (closed /\ AllExited /\ InProgress = {})

C2_Witness ==
    /\ pc = "done"
    /\ finalId # 0
    /\ shutdownLog = <<"final", "cancel", "close", "drained">>

\* C3: every batch whose enqueue completed was received by exactly one worker
\* and is passed to exactly one SendBatch call: it is held by the worker that
\* is about to call SendBatch, or exactly one call has been made with it; no
\* batch is sent twice, and after shutdown every enqueued batch's call has
\* returned.
C3_ExactlyOnce ==
    \A id \in Ids :
        /\ taken[id] <= 1
        /\ calls[id] <= 1
        /\ returned[id] <= calls[id]
        /\ (id \in enqueued) <=> (taken[id] = 1)
        /\ (taken[id] = 1 /\ calls[id] = 0) =>
              \E w \in Workers : worker[w] = "received" /\ held[w] = id
        /\ (taken[id] = 0) => (calls[id] = 0)
        /\ (pc = "done" /\ id \in enqueued) =>
              (calls[id] = 1 /\ returned[id] = 1)

C3_Witness ==
    /\ pc = "done"
    /\ Len(built) >= 2
    /\ finalId # 0
    /\ \A id \in Ids : id \in enqueued /\ returned[id] = 1
    /\ sendErrs # {}

\* C4: the pool holds exactly max(1, RateLimit) workers, and the number of
\* SendBatch calls in progress never exceeds that number.
C4_PoolSize ==
    pc # "start" =>
        /\ Len(worker) = Max(1, cfgRateLimit)
        /\ Cardinality(InProgress) <= Max(1, cfgRateLimit)
        /\ \A id \in Ids : calls[id] - returned[id] <= 1

C4_Witness ==
    /\ cfgRateLimit <= 0
    /\ Len(worker) = 1
    /\ Cardinality(InProgress) = 1
    /\ pc = "enqueue"

\* C5: with RateLimit = 1 a later batch's enqueue has completed only if the
\* SendBatch call of every earlier batch has returned; in general the queue
\* holds no batch: an enqueue has completed exactly when a worker has taken the
\* batch, and the batch main is still sending has been taken by nobody.
C5_Backpressure ==
    /\ (pc # "start" /\ rateLimit = 1) =>
          \A i \in enqueued : \A j \in enqueued :
              i < j => (calls[i] = 1 /\ returned[i] = 1)
    /\ \A id \in Ids : (id \in enqueued) <=> (taken[id] >= 1)
    /\ pending # 0 => (pending \notin enqueued /\ taken[pending] = 0)
    /\ Cardinality({id \in enqueued : returned[id] = 0}) <= Len(worker)

C5_Witness ==
    /\ rateLimit = 1
    /\ pc # "start"
    /\ Cardinality(enqueued) >= 2
    /\ pending # 0
    /\ worker[1] = "sending"

\* =========================================================================
\* Properties of RetryWithBackoff (SpecRetry)
\* =========================================================================

\* the error chain contains a database error whose SQLSTATE begins with "08"
IsConnectionClass(err) ==
    \E k \in 1..Len(err) :
        /\ err[k].t = "pg"
        /\ Len(err[k].code) >= 2
        /\ err[k].code[1] = "0"
        /\ err[k].code[2] = "8"

\* what the k-th invocation of op returns under the script
Scripted(k) == Op(caller, script[k])

\* C6 as stated: a SendBatch whose delivery attempts fail with a transport or
\* RPC error or a non-200 status has made as many attempts as the schedule is
\* long before it returns the error.
C6_DeliveryRetried ==
    (rpc = "done" /\ caller \in {"http", "grpc"} /\ result # Nil /\ ~ctxDone)
        => opCalls = Len(retryIntervals)

\* C7 as stated: three consecutive connection-class failures followed by a
\* success end in success after the 1s and 3s waits.
C7_ThreeFailuresThenSuccess ==
    (/\ rpc = "done"
     /\ ~ctxDone
     /\ \A k \in 1..3 : IsConnectionClass(Scripted(k))
     /\ Scripted(4) = Nil)
        => (result = Nil /\ waited = <<1, 3>>)

\* C7 amended: two consecutive connection-class failures followed by a success
\* on the third attempt end in success, the helper having waited the
\* schedule's 1s and 3s intervals between the attempts.
C7_TwoFailuresThenSuccess ==
    (/\ rpc = "done"
     /\ ~ctxDone
     /\ \A k \in 1..2 : IsConnectionClass(Scripted(k))
     /\ Scripted(3) = Nil)
        => (result = Nil /\ opCalls = 3 /\ waited = <<1, 3>>)

C7_Witness ==
    /\ rpc = "done"
    /\ ~ctxDone
    /\ opCalls = 3
    /\ IsConnectionClass(opErrs[1])
    /\ IsConnectionClass(opErrs[2])
    /\ opErrs[3] = Nil
    /\ result = Nil

\* C8: one call invokes op at most as many times as the schedule is long,
\* which is 3, and never again after an invocation returned success.
C8_AtMostNAttempts ==
    /\ Len(retryIntervals) = 3
    /\ opCalls <= Len(retryIntervals)
    /\ Len(opErrs) = opCalls
    /\ \A k \in 1..(Len(opErrs) - 1) : opErrs[k] # Nil
    /\ (opCalls >= 1 /\ opErrs[opCalls] = Nil) => (rpc = "done" /\ result = Nil)

C8_Witness ==
    /\ rpc = "done"
    /\ opCalls = 3
    /\ opErrs[3] # Nil
    /\ ~ctxDone

\* C9 as stated: a returned error that is not of the connection class means op
\* was invoked exactly once and that error was returned at once, unwrapped.
C9_OtherErrorAfterOneCall ==
    (/\ rpc = "done"
     /\ opCalls >= 1
     /\ opErrs[opCalls] # Nil
     /\ ~IsConnectionClass(opErrs[opCalls]))
        => (opCalls = 1 /\ result = opErrs[opCalls] /\ waited = <<>>)

\* C9 amended: an error is retried only if it is of the connection class; on
\* any other error op is not invoked again and that same error is returned at
\* once, without a wait after it and without being wrapped (op has then been
\* invoked exactly once when the error came from the first attempt).
C9_OnlyConnectionClassRetried ==
    /\ \A k \in 1..(opCalls - 1) : IsConnectionClass(opErrs[k])
    /\ \A k \in 1..opCalls :
          (opErrs[k] # Nil /\ ~IsConnectionClass(opErrs[k])) =>
              /\ k = opCalls
              /\ rpc = "done"
              /\ result = opErrs[k]
              /\ Len(waited) = k - 1

C9_Witness ==
    /\ rpc = "done"
    /\ opCalls = 2
    /\ IsConnectionClass(opErrs[1])
    /\ HasPgError(opErrs[2])
    /\ ~IsConnectionClass(opErrs[2])
    /\ result = opErrs[2]
    /\ waited = <<1>>

\* C10: when the helper sits in a wait, the context is cancelled and the
\* interval has not run out, the helper's next step returns the context's
\* error, without the interval being counted as waited and without another
\* invocation of op.
C10_CancelMidWait ==
    [][(rpc = "select" /\ ctxDone /\ ~timerFired /\ rpc' # "select") =>
          /\ rpc' = "done"
          /\ result' = CtxErr
          /\ opCalls' = opCalls
          /\ waited' = waited]_vars

C10_Witness ==
    /\ rpc = "done"
    /\ ctxDone
    /\ ~timerFired
    /\ result = CtxErr
    /\ opCalls = 2
    /\ waited = <<1>>

\* C11: when every attempt of the schedule fails with a connection-class error
\* and the context is never cancelled, the helper returns an error whose
\* outermost message is "operation failed after retries" and which wraps the
\* error of the last attempt, after having waited every interval.
C11_ExhaustedWrapsLast ==
    (/\ rpc = "done"
     /\ ~ctxDone
     /\ opCalls = Len(retryIntervals)
     /\ \A k \in 1..opCalls : IsConnectionClass(opErrs[k]))
        => /\ Len(result) >= 2
           /\ Head(result) = Msg("operation failed after retries")
           /\ Tail(result) = opErrs[opCalls]
           /\ HasPgError(result)
           /\ FirstPgError(result) = FirstPgError(opErrs[opCalls])
           /\ waited = retryIntervals

C11_Witness ==
    /\ rpc = "done"
    /\ ~ctxDone
    /\ opCalls = 3
    /\ \A k \in 1..3 : IsConnectionClass(opErrs[k])
    /\ opErrs[1] # opErrs[3]
    /\ Head(result).s = "operation failed after retries"
    /\ Tail(result) = opErrs[3]

\* =========================================================================
\* Properties of MemStorage (SpecStore)
\* =========================================================================

RECURSIVE Sum(_)
Sum(q) == IF q = <<>> THEN 0 ELSE Head(q) + Sum(Tail(q))

\* caller p has returned from a call of method m
Returned(p, m) == spc[p] = "idle" /\ sop[p].m = m

\* C12: a GetCounter(name) that follows a sequence of completed
\* AddCounter(name, d_i) calls reports the name as found and returns the sum of
\* the d_i (counting from zero for a name that was absent); with no such call
\* the name is reported as not found.
C12_CounterIsSum ==
    \A p \in Callers :
        Returned(p, "GetCounter") =>
            LET ds == sseen[p].added[sop[p].n] IN
              /\ sres[p].ok = (ds # <<>>)
              /\ sres[p].val = Sum(ds)

C12_Witness ==
    \E p \in Callers :
        /\ Returned(p, "GetCounter")
        /\ sseen[p].added[sop[p].n] = <<7, -3>>
        /\ sres[p].ok
        /\ sres[p].val = 4

\* C13: a GetGauge(name) that follows a sequence of completed SetGauge(name, _)
\* calls returns the value of the most recent of them, whatever the earlier
\* values were.
C13_LastWriteWins ==
    \A p \in Callers :
        Returned(p, "GetGauge") =>
            LET vs == sseen[p].set[sop[p].n] IN
              /\ sres[p].ok = (vs # <<>>)
              /\ vs # <<>> => sres[p].val = vs[Len(vs)]

C13_Witness ==
    \E p \in Callers :
        /\ Returned(p, "GetGauge")
        /\ sseen[p].set[sop[p].n] = <<250, -5>>
        /\ sres[p].ok
        /\ sres[p].val = -5

\* C14: once every concurrent call has returned, each counter equals the sum
\* of all deltas added to it and each gauge holds the value of one of the
\* SetGauge calls made on it; a name is present exactly if it was written.
C14_NoLostUpdate ==
    (\A p \in Callers : spc[p] = "idle") =>
        \A n \in Names :
            /\ (n \in DOMAIN counter) = (addedLog[n] # <<>>)
            /\ Load(counter, n) = Sum(addedLog[n])
            /\ (n \in DOMAIN gauge) = (setLog[n] # <<>>)
            /\ n \in DOMAIN gauge =>
                  \E k \in 1..Len(setLog[n]) : gauge[n] = setLog[n][k]

C14_Witness ==
    /\ \A p \in Callers : spc[p] = "idle"
    /\ scalls = MaxStoreCalls
    /\ sop[1].m = "AddCounter"
    /\ sop[2].m = "AddCounter"
    /\ sop[1].n = sop[2].n
    /\ Len(addedLog[sop[1].n]) = 2
    /\ Len(setLog[sop[1].n]) = 1
    /\ counter[sop[1].n] = sop[1].v + sop[2].v

\* C15: every entry GetAll returns carries, as text, a value that a completed
\* SetGauge or AddCounter call left in the store for that name and type, also
\* when writers are calling the store at the same time.
C15_GetAllCommitted ==
    \A p \in Callers :
        Returned(p, "GetAll") =>
            \A i \in 1..Len(sres[p].all) :
                LET e == sres[p].all[i] IN
                  \E c \in sseen[p].committed :
                      /\ c[1] = e.Type
                      /\ c[2] = e.Name
                      /\ e.Value = IF e.Type = "gauge" THEN FormatFloat(c[3])
                                   ELSE FormatInt(c[3])

C15_Witness ==
    \E p, q \in Callers :
        /\ Returned(p, "GetAll")
        /\ spc[q] = "lock"
        /\ sop[q] = [m |-> "SetGauge", n |-> "m1", v |-> 250]
        /\ sres[p].all = <<MetricInfo("m1", "gauge", <<"-", "0", ".", "0", "5">>)>>

\* =========================================================================
\* Properties of the update handlers (SpecServer)
\* =========================================================================

\* the handler has returned
Done == hpc = "done"

\* the condition under which a body/signature pair is to be accepted: no key
\* is configured, or the header is absent, or the signature is the HMAC of the
\* body under the configured key
SigAccepted ==
    \/ hkey = ""
    \/ req.sig = NoHash
    \/ req.sig = computeHash(hkey, req.body)

\* the request got past signature verification and decoding
Decoded == req.path = "rpc" \/ (SigAccepted /\ ~req.body.bad)

\* an entry the request's path does not accept: an unknown metric type, a
\* missing value or delta in a JSON entry, an empty id in an RPC entry
InvalidEntry(e) ==
    \/ e.mtype \notin {"gauge", "counter"}
    \/ req.path # "rpc" /\ e.val = <<>>
    \/ req.path = "rpc" /\ e.id = ""

\* index of the first invalid entry of the request, 0 when all are valid
FirstInvalid ==
    LET bad == {i \in 1..Len(req.body.entries) :
                    InvalidEntry(req.body.entries[i])}
    IN IF bad = {} THEN 0
       ELSE CHOOSE i \in bad : \A j \in bad : i <= j

AllIds == Names \cup {e.id : e \in Entries}

\* indices, among the first k entries, of the entries of type t named n
Touching(t, n, k) ==
    {i \in 1..k : req.body.entries[i].mtype = t /\ req.body.entries[i].id = n}

RECURSIVE SumDeltas(_)
SumDeltas(I) ==
    IF I = {} THEN 0
    ELSE LET i == CHOOSE x \in I : TRUE
         IN ValueOf(req.body.entries[i]) + SumDeltas(I \ {i})

\* the store is what the arrival store becomes when exactly the first k
\* entries are applied: a gauge holds the value of its last entry, a counter
\* has grown by the sum of its deltas, everything else is as it was
StoreIsAfter(k) ==
    \A n \in AllIds :
        LET gi == Touching("gauge", n, k)
            ci == Touching("counter", n, k)
        IN /\ (n \in DOMAIN gauge) = (n \in DOMAIN hstore0.gauge \/ gi # {})
           /\ gi # {} =>
                 gauge[n] = ValueOf(req.body.entries[
                                CHOOSE i \in gi : \A j \in gi : j <= i])
           /\ (gi = {} /\ n \in DOMAIN gauge) => gauge[n] = hstore0.gauge[n]
           /\ (n \in DOMAIN counter)
                 = (n \in DOMAIN hstore0.counter \/ ci # {})
           /\ n \in DOMAIN counter =>
                 counter[n] = Load(hstore0.counter, n) + SumDeltas(ci)

\* C16: with a signing key configured, a request to the JSON update or batch
\* endpoint whose signature header is present and differs from the HMAC of the
\* body is answered 400, and nothing else happens: the store and the table
\* stay as they were, no transaction is run, no audit event is published.
C16_BadSignatureRejected ==
    (/\ hpc # "idle"
     /\ req.path \in {"update", "updates"}
     /\ hkey # ""
     /\ req.sig # NoHash
     /\ req.sig # computeHash(hkey, req.body))
        => /\ gauge = hstore0.gauge
           /\ counter = hstore0.counter
           /\ dbTable = hdb0
           /\ hattempt = 0
           /\ haudit = <<>>
           /\ hpc \in {"verify", "done"}
           /\ Done => (hresp.code = 400 /\ hlog = <<"respond">>)

C16_Witness ==
    /\ Done
    /\ req.path = "updates"
    /\ hkey # ""
    /\ hdb
    /\ req.sig # NoHash
    /\ req.sig # computeHash(hkey, req.body)
    /\ req.body.entries = <<Entry("m1", "gauge", <<250>>)>>
    /\ hresp = Resp(400, "invalid signature")
    /\ Load(gauge, "m1") = -5

\* C17: signature verification accepts a body/signature pair exactly when no
\* key is configured, or the header is absent, or the signature equals the
\* HMAC-SHA256 of the body under the configured key; the HTTP handlers reject
\* a request as "invalid signature" exactly in the other cases.
C17_VerifyExactly ==
    (hpc \notin {"idle", "verify"} /\ req.path # "rpc")
        => ((hresp.msg = "invalid signature") = ~SigAccepted)

C17_Witness ==
    /\ Done
    /\ hkey # ""
    /\ req.sig = NoHash
    /\ req.body.entries # <<>>
    /\ hresp.code = 200

\* C18: a batch request (HTTP batch endpoint or RPC) that contains an invalid
\* entry never gets past the first such entry; when it has returned it has
\* failed, and the store is the arrival store with exactly the entries before
\* that one applied.
C18_FailsAtFirstInvalid ==
    (/\ hpc # "idle"
     /\ req.path \in {"updates", "rpc"}
     /\ Decoded
     /\ FirstInvalid # 0)
        => /\ hidx <= FirstInvalid
           /\ hpc \in {"verify", "apply", "done"}
           /\ Done => /\ hidx = FirstInvalid
                       /\ StoreIsAfter(FirstInvalid - 1)
                       /\ hresp.code \in {400, 501, 3}
                       /\ hattempt = 0

C18_Witness ==
    /\ Done
    /\ req.path = "updates"
    /\ Len(req.body.entries) = 3
    /\ FirstInvalid = 2
    /\ ~InvalidEntry(req.body.entries[3])
    /\ req.body.entries[1] = Entry("m1", "counter", <<7>>)
    /\ req.body.entries[3] = Entry("m1", "gauge", <<250>>)
    /\ Load(counter, "m1") = 14
    /\ Load(gauge, "m1") = -5
    /\ hresp.code = 501

\* C19: a batch of valid entries posted to the batch endpoint (its signature
\* accepted, its database sync, if any, successful) is answered 200;
\* afterwards every gauge named in it holds the last value the batch gave it
\* and every counter named in it has grown by the sum of its deltas, a gauge
\* and a counter of one name each being held on its own.
C19_ValidBatchApplied ==
    (/\ Done
     /\ req.path = "updates"
     /\ Decoded
     /\ FirstInvalid = 0
     /\ hsyncErr = Nil)
        => /\ hresp.code = 200
           /\ StoreIsAfter(Len(req.body.entries))

C19_Witness ==
    /\ Done
    /\ req.path = "updates"
    /\ req.body.entries = <<Entry("m1", "gauge", <<-5>>),
                            Entry("m1", "counter", <<7>>),
                            Entry("m1", "gauge", <<250>>)>>
    /\ hresp.code = 200
    /\ hstore0.counter = [n \in {"m1"} |-> 7]
    /\ Load(gauge, "m1") = 250
    /\ Load(counter, "m1") = 14

\* C20: while SyncToDB is retrying, and when it has returned an error, the
\* table holds none of the upserts of the failed transactions; the request
\* whose sync failed is answered with an internal error (HTTP 500, gRPC
\* Internal) and the store keeps every mutation the request applied.
C20_SyncFailureKeepsStore ==
    /\ hpc \in {"sync", "tx"} => dbTable = hdb0
    /\ (Done /\ hsyncErr # Nil)
          => /\ dbTable = hdb0
             /\ hresp.code = (IF req.path = "rpc" THEN 13 ELSE 500)
             /\ StoreIsAfter(Len(req.body.entries))
             /\ FirstInvalid = 0

C20_Witness ==
    /\ Done
    /\ hattempt = 2
    /\ HasPgError(hsyncErr)
    /\ FirstPgError(hsyncErr).code = <<"2", "3", "5", "0", "5">>
    /\ hresp.code = 500
    /\ req.body.entries = <<Entry("m1", "gauge", <<250>>)>>
    /\ hstore0.gauge = [n \in {"m1"} |-> -5]
    /\ Load(gauge, "m1") = 250
    /\ dbTable = hdb0

\* the request's SyncToDB has committed its transaction
Synced == hdb /\ hpc \in {"respond", "audit", "done"} /\ hsyncErr = Nil
            /\ hattempt >= 1

GaugeRow(v) == [type |-> "gauge", delta |-> <<>>, value |-> <<v>>]

CounterRow(d) == [type |-> "counter", delta |-> <<d>>, value |-> <<>>]

\* C21 as stated: after a successful sync every (name, type) pair of the
\* store, a gauge and a counter of one name included, is represented in the
\* table with its type and current value.
C21_EveryPairRepresented ==
    Synced =>
        /\ \A n \in DOMAIN gauge :
              n \in DOMAIN dbTable /\ dbTable[n] = GaugeRow(gauge[n])
        /\ \A n \in DOMAIN counter :
              n \in DOMAIN dbTable /\ dbTable[n] = CounterRow(counter[n])

\* C21 amended: after a successful sync the table, which is keyed by the
\* metric name alone, holds one row for every name of the store: the counter
\* row (delta set, value null) with the counter's current value when the name
\* is a counter, also if it is a gauge as well; the gauge row (value set,
\* delta null) with the gauge's current value when the name is a gauge only.
C21_OneRowPerName ==
    Synced =>
        /\ \A n \in DOMAIN counter :
              n \in DOMAIN dbTable /\ dbTable[n] = CounterRow(counter[n])
        /\ \A n \in DOMAIN gauge \ DOMAIN counter :
              n \in DOMAIN dbTable /\ dbTable[n] = GaugeRow(gauge[n])
        /\ DOMAIN dbTable = DOMAIN hdb0 \cup DOMAIN gauge \cup DOMAIN counter

C21_Witness ==
    /\ Done
    /\ Synced
    /\ DOMAIN gauge = {"m1"}
    /\ DOMAIN counter = {"m1", ""}
    /\ gauge["m1"] = 250
    /\ hdb0 = [n \in {"m1"} |-> CounterRow(7)]
    /\ dbTable["m1"] = CounterRow(14)
    /\ dbTable[""] = CounterRow(7)

\* the positions of a step in the handler's log
Positions(step) == {i \in 1..Len(hlog) : hlog[i] = step}

\* a mutating HTTP request that was answered with status 200, its response
\* written without an error
SucceededHTTP == /\ Done
                 /\ req.path \in {"update", "updates", "param"}
                 /\ hresp = Resp(StatusOK, "ok")

\* C22: in every successful mutating HTTP request the audit event is
\* published after the store was written and synchronised and before the
\* response is written.
C22_AuditBeforeResponse ==
    SucceededHTTP =>
        /\ Positions("audit") # {}
        /\ \A a \in Positions("audit") :
              /\ \A m \in Positions("apply") \cup Positions("sync") : m < a
              /\ \A r \in Positions("respond") : a < r

\* a batch request that was answered with success, its response written
\* without an error
BatchSucceeded == /\ Done
                  /\ req.path \in {"updates", "rpc"}
                  /\ hresp = Resp(IF req.path = "rpc" THEN CodeOK ELSE StatusOK,
                                  "ok")

\* C23: a batch update that succeeds over the HTTP batch endpoint or over
\* UpdateMetrics publishes exactly one audit event naming the ids of its
\* metrics; a batch that is rejected or whose sync fails publishes none.
C23_BatchAudited ==
    (Done /\ req.path \in {"updates", "rpc"}) =>
        IF BatchSucceeded
          THEN haudit = <<[i \in 1..Len(req.body.entries) |->
                             req.body.entries[i].id]>>
          ELSE haudit = <<>>

\* =========================================================================
\* Properties of the audit manager (SpecAudit)
\* =========================================================================

\* the OnAuditEvent calls made for event n, in order
CallsOf(n) == SelectSeq(acalls, LAMBDA c : c.ev = n)

\* C24: when an audited request has returned, every attached observer was
\* invoked exactly once for its event, in attach order, whether or not an
\* earlier observer failed; each failure was logged and nothing else: the
\* request was answered 200 and the store holds exactly the request's write.
C24_NotifyReachesAll ==
    (apc = "idle" /\ aevents >= 1) =>
        /\ \A n \in 1..aevents :
              /\ Len(CallsOf(n)) = Len(observers)
              /\ \A i \in 1..Len(observers) : CallsOf(n)[i].obs = observers[i]
        /\ Len(alogged) = Len(SelectSeq(acalls, LAMBDA c : c.err))
        /\ aresp = Resp(StatusOK, "ok")
        /\ \E e \in AuditedEntries : astore = ApplyEntry(astore0, e)

\* the first of two observers failed on the URL-parameter endpoint, the
\* second was still invoked and the request was answered 200
C24_Witness ==
    /\ apc = "idle"
    /\ apath = "param"
    /\ observers = <<"url", "file">>
    /\ acalls = <<[ev |-> 1, obs |-> "url", err |-> TRUE],
                  [ev |-> 1, obs |-> "file", err |-> FALSE]>>
    /\ aresp = Resp(StatusOK, "ok")

\* =========================================================================
\* Properties of the trusted-subnet interceptor (SpecGate)
\* =========================================================================

\* the j-th of the 32 bits of an address, the most significant first
AddrBit(ip, j) == (ip[(j - 1) \div 8 + 1] \div Pow2(7 - ((j - 1) % 8))) % 2

\* the address shares the subnet's prefix
InSubnet(net, ip) == \A j \in 1..net.bits : AddrBit(ip, j) = AddrBit(net.ip, j)

\* the call carries a real-IP value (the first one, blanks around it aside)
\* that is a dotted address of four bytes inside the trusted subnet
RealIPTrusted ==
    /\ gmd # <<>>
    /\ Len(gmd[1]) >= 1
    /\ LET f == gmd[1][1].fields
       IN /\ Len(f) = 4
          /\ \A i \in 1..4 : f[i] \in 0..255
          /\ InSubnet(gsubnet[1], f)

\* C25: when a call has been answered, the handler was invoked if and only
\* if no subnet is configured or the call's real-IP value is present, is an
\* address and lies in the subnet; every other call got the permission error
\* and left the store as it was.
C25_OnlyTrustedReachHandler ==
    (gpc = "idle" /\ gcalls >= 1) =>
        /\ ghandled <=> (gsubnet = <<>> \/ RealIPTrusted)
        /\ ~ghandled => (gresp.code = CodePermissionDenied /\ gstore = gstore0)
        /\ ghandled => (gresp.code = CodeOK /\ gstore = ApplyEntry(gstore0, gentry))

\* a call from 192.168.1.5 to a server trusting 192.168.1.128/25 is refused
\* after an earlier call was served
C25_Witness ==
    /\ gpc = "idle"
    /\ gcalls = 2
    /\ gsubnet = <<Subnet(<<192, 168, 1, 128>>, 25)>>
    /\ gmd = <<(<<Text(FALSE, <<192, 168, 1, 5>>)>>)>>
    /\ ~ghandled
    /\ gresp = Resp(CodePermissionDenied, "ip not allowed")
    /\ gstore # Store(EmptyMap, EmptyMap)
    /\ gstore = gstore0

\* =========================================================================
\* Properties of the HTTP transport (SpecSend)
\* =========================================================================

\* the calls that have posted their request and were answered
Posted == {p \in Senders : rsCall[p].status # 0}

\* C26: every request SendBatch posts with a signing key configured carries
\* the HMAC of the gzip-compressed marshalled batch, the bytes before any
\* encryption, so the signature depends on the batch and the key alone.
C26_SignsCompressedPlaintext ==
    \A p \in Senders :
        rsCall[p].req # <<>> =>
            rsCall[p].req[1].sig =
                IF rsKey = "" THEN NoHash
                ELSE computeHash(rsKey, <<"gzip", <<"json", rsCall[p].batch>>>>)

\* an encrypted request was posted with the signature of its plaintext
C26_Witness ==
    /\ rsKey = "secret"
    /\ rsCryptoKey
    /\ \E p \in Posted :
         /\ rsCall[p].req[1].body[1] = "rsa-oaep"
         /\ rsCall[p].req[1].sig # NoHash
         /\ rsCall[p].req[1].sig[3] = rsCall[p].req[1].body[3]

\* C27: a request that the agent signed with the key the server holds is
\* accepted by the server whether or not the agent encrypted it.
C27_SignedBatchAccepted ==
    (rsKey # "" /\ rsKey = rsServerKey) =>
        \A p \in Posted : rsCall[p].status = StatusOK

\* C28: a buffer or compressor a SendBatch call holds is in no pool and held
\* by no other call; when the call has returned, each object it took has been
\* put back exactly once, on the success path and on every error path.
C28_PoolObjectsReturnedOnce ==
    \A p \in Senders :
        LET c == rsCall[p]
        IN /\ c.pc \in {"getgz", "prepare", "post", "putgz", "putbuf"} =>
                /\ c.buf \notin bufPool
                /\ \A q \in Senders \ {p} :
                      rsCall[q].pc # "idle" => rsCall[q].buf # c.buf
           /\ c.pc \in {"prepare", "post", "putgz"} =>
                /\ c.gz \notin gzipPool
                /\ \A q \in Senders \ {p} :
                      rsCall[q].pc \in {"prepare", "post", "putgz"}
                          => rsCall[q].gz # c.gz
           /\ c.putBuf <= 1 /\ c.putGz <= 1
           /\ (c.pc = "idle" /\ c.n >= 1) =>
                /\ c.putBuf = (IF c.buf = NoObject THEN 0 ELSE 1)
                /\ c.putGz = (IF c.gz = NoObject THEN 0 ELSE 1)
                /\ c.err = "marshal" <=> c.buf = NoObject

\* a call returned an encryption error with both objects back in the pools
\* while the other worker is posting with objects of its own
C28_Witness ==
    \E p, q \in Senders :
        /\ rsCall[p].pc = "idle"
        /\ rsCall[p].err = "encrypt"
        /\ rsCall[p].putBuf = 1 /\ rsCall[p].putGz = 1
        /\ rsCall[p].buf \in bufPool /\ rsCall[p].gz \in gzipPool
        /\ rsCall[q].pc = "post"
        /\ rsCall[q].buf # rsCall[p].buf

\* =========================================================================
\* Properties of the snapshot file (SpecFile)
\* =========================================================================

\* C29: with storeInterval 0, once an update request has been served the
\* snapshot file is a save of the store as it is, whichever endpoint served
\* the update.
C29_SnapshotFollowsEveryUpdate ==
    (/\ storeInterval = 0
     /\ fpc = "serving"
     /\ fstore # Store(EmptyMap, EmptyMap)
     /\ \A h \in RequestSavers : fsavers[h].pc = "idle") =>
        ffile \in SavedFiles(fstore)

\* C30: a store saved to the snapshot file and loaded from it into an empty
\* store is the same store: the same names, types and values.
C30_SaveLoadRoundTrip ==
    (fpc = "restored" /\ ffile \in SavedFiles(fsaved)) => frestored = fsaved

\* C38 as stated: after a graceful shutdown the snapshot file is a save of
\* the store with every update that was answered with success before the
\* server stopped serving.
C38_FileHoldsAcknowledged ==
    fpc = "stopped" => ffile \in SavedFiles(fstore)

\* =========================================================================
\* Properties of the observer list (SpecManager)
\* =========================================================================

\* the positions of o in a list
Occurrences(list, o) == {i \in 1..Len(list) : list[i] = o}

\* C31: the observers are an ordered list.  After Attach(o) the list is the
\* former list with o at its end; after Detach(o) of an attached o the list
\* is the former list without the first position holding o, every other
\* element in its place and order; after Detach(o) of an o that is not
\* attached the list is the former list; HasObservers leaves the list alone
\* and returns true exactly when it is not empty.
C31_ObserversOrderedList ==
    /\ aop.op = "Attach" =>
          /\ Len(observers) = Len(aop.before) + 1
          /\ observers[Len(observers)] = aop.o
          /\ \A i \in 1..Len(aop.before) : observers[i] = aop.before[i]
    /\ (aop.op = "Detach" /\ Occurrences(aop.before, aop.o) = {}) =>
          observers = aop.before
    /\ (aop.op = "Detach" /\ Occurrences(aop.before, aop.o) # {}) =>
          LET first == CHOOSE i \in Occurrences(aop.before, aop.o) :
                         \A j \in Occurrences(aop.before, aop.o) : i <= j
          IN  /\ Len(observers) = Len(aop.before) - 1
              /\ \A i \in 1..Len(observers) :
                    observers[i] = IF i < first THEN aop.before[i]
                                   ELSE aop.before[i + 1]
    /\ aop.op = "HasObservers" =>
          /\ observers = aop.before
          /\ aop.ret <=> observers # <<>>

\* an observer attached twice, around another one, was detached: the second
\* occurrence and the other observer are still attached, in order
C31_Witness ==
    /\ aop = ManagerCall("Detach", "file", <<"file", "url", "file">>, FALSE)
    /\ observers = <<"url", "file">>

\* =========================================================================
\* Properties of requests served at the same time (SpecSync)
\* =========================================================================

\* every request has been answered 200
AllSucceeded ==
    \A p \in Handlers :
       syncCall[p].pc = "done" /\ syncCall[p].resp = Resp(StatusOK, "")

\* C32 as stated: once all the concurrent update requests have returned
\* success, the table holds exactly the store: the gauge row of every gauge
\* and the counter row of every counter, with their current values.
C32_DatabaseEqualsStore ==
    AllSucceeded =>
        /\ DOMAIN dbTable = DOMAIN gauge \cup DOMAIN counter
        /\ \A n \in DOMAIN gauge : dbTable[n] = GaugeRow(gauge[n])
        /\ \A n \in DOMAIN counter : dbTable[n] = CounterRow(counter[n])

\* =========================================================================
\* Properties of the delivered poll counter (SpecCollector)
\* =========================================================================

\* the number of passes a batch reports: its PollCount entry
PollCountOf(batch) ==
    IF "PollCount" \in DOMAIN batch THEN batch["PollCount"].value ELSE 0

\* no SendBatch call is in progress and no POST is on its way
Quiet == csend = <<>> /\ cnet = <<>>

\* C33 as stated: batches have been delivered to the server, which started
\* empty, and no send is in progress: the server's PollCount equals the
\* number of sampling passes performed when the last delivered batch was
\* built.
C33_PollCountEqualsPasses ==
    (cdelivered # <<>> /\ Quiet) =>
        Load(srvCounter, "PollCount") = PollCountOf(cdelivered[1])

\* =========================================================================
\* Properties of the job queue at shutdown (Spec)
\* =========================================================================

\* C34: once the job queue is closed, main is past its loop and is not
\* sending on the queue, and no batch was built that was not handed to a
\* worker before the close: no send on the closed queue is ever attempted.
C34_NoSendAfterClose ==
    closed =>
        /\ pc \in {"wait", "done"}
        /\ pending = 0
        /\ Ids \subseteq enqueued
        /\ \A id \in Ids : taken[id] = 1

\* the queue was closed after a report batch and the final batch were handed
\* over, while a worker is still inside SendBatch
C34_Witness ==
    /\ closed
    /\ pc = "wait"
    /\ Len(built) = 2
    /\ finalId = 2
    /\ \E w \in Workers : worker[w] = "sending" /\ held[w] = 2

\* =========================================================================
\* Termination of the agent's shutdown (SpecShutdown)
\* =========================================================================

\* main has returned from the shutdown branch
ShutdownComplete ==
    /\ pc = "done"
    /\ (finalId # 0 => finalId \in enqueued)
    /\ closed
    /\ AllExited
    /\ wg = 0

\* C35: when every SendBatch call returns, a shutdown that was asked for (a
\* signal is pending, or the signal branch has built its final snapshot)
\* completes: the final batch is taken by a worker, the queue is closed,
\* every worker leaves its range loop, the wait for the workers ends and main
\* returns.
C35_ShutdownCompletes ==
    (sigPending \/ finalBuilt) ~> ShutdownComplete

\* the only worker made both SendBatch calls, one for the report batch and
\* one for the final batch main had to hand over, and main has returned
C35_Witness ==
    /\ pc = "done"
    /\ Len(worker) = 1
    /\ finalId = 2
    /\ returned = <<1, 1>>
    /\ wg = 0

\* =========================================================================
\* Properties of a worker after a failed send (Spec)
\* =========================================================================

\* C36: a batch whose SendBatch call returned an error was received once and
\* sent once, is held by no worker and is not on its way to the queue again;
\* the worker that made the call is back at its receive or busy with a later
\* batch; and a worker has left its loop only if the queue was closed.
C36_FailedBatchDropped ==
    /\ \A id \in sendErrs :
          /\ taken[id] = 1
          /\ calls[id] = 1
          /\ returned[id] = 1
          /\ pending # id
          /\ \A w \in Workers : held[w] # id
    /\ \A w \in Workers : worker[w] = "exited" => closed
    /\ ~closed => \A w \in Workers :
                     worker[w] \in {"idle", "received", "sending"}

\* the only worker's call for the first batch failed, and the same worker
\* has since delivered the second batch; the queue is still open
C36_Witness ==
    /\ Len(worker) = 1
    /\ ~closed
    /\ sendErrs = {1}
    /\ Len(built) >= 2
    /\ returned[2] = 1
    /\ worker[1] = "idle"

\* =========================================================================
\* Properties of the batch snapshot (SpecCollector)
\* =========================================================================

\* the batch holds everything pass n wrote, and the count n
HoldsPass(batch, n) ==
    /\ PassKeys \subseteq DOMAIN batch
    /\ \A k \in RuntimeGauges : batch[k] = Metric("gauge", n)
    /\ batch["PollCount"] = Metric("counter", n)
    /\ batch["RandomValue"] = Metric("gauge", n)

\* C37: a batch buildBatchSnapshot has returned holds no key of a runtime
\* sampling pass, or it holds the gauges, the PollCount and the RandomValue
\* one and the same pass wrote, the latest pass that had ended: no pass is
\* seen half written.
C37_SnapshotHoldsWholePasses ==
    cpc.main = "built" =>
        \/ DOMAIN cbatch \cap PassKeys = {}
        \/ \E n \in 1..pollCount : HoldsPass(cbatch, n)

\* a batch was built between two holders of the lock: it holds the whole
\* first pass and not yet the system gauge, which the system sampler is
\* writing now
C37_Witness ==
    /\ cpc.main = "built"
    /\ HoldsPass(cbatch, 1)
    /\ "TotalMemory" \notin DOMAIN cbatch
    /\ cpc.sys = "store"

\* ------------------------------------------------------------- SpecLoad
\* C39: loading a snapshot file into a store that already holds metrics
\* overwrites each gauge named in the file and adds each counter value in
\* the file to the counter's current value; gauges and counters the file
\* does not name stay as they were. After n loads of the same file a counter
\* of the file holds its first value plus n times the file's value, and a
\* gauge of the file holds the file's value.
C39_LoadOverwritesGaugesAddsCounters ==
    fpc = "loading" =>
        /\ DOMAIN frestored.gauge =
              DOMAIN fstore.gauge
              \cup (IF fmuts > 0 THEN DOMAIN fsaved.gauge ELSE {})
        /\ DOMAIN frestored.counter =
              DOMAIN fstore.counter
              \cup (IF fmuts > 0 THEN DOMAIN fsaved.counter ELSE {})
        /\ \A k \in DOMAIN frestored.gauge :
              frestored.gauge[k] =
                 IF fmuts > 0 /\ k \in DOMAIN fsaved.gauge
                   THEN fsaved.gauge[k] ELSE fstore.gauge[k]
        /\ \A k \in DOMAIN frestored.counter :
              frestored.counter[k] =
                 Load(fstore.counter, k) + fmuts * Load(fsaved.counter, k)

\* the same file was loaded twice into a store whose gauge m1 differs from
\* the file's and whose counter m1 the file also names
C39_Witness ==
    /\ fpc = "loading"
    /\ fmuts = 2
    /\ "m1" \in DOMAIN fstore.gauge \cap DOMAIN fsaved.gauge
    /\ fstore.gauge["m1"] # fsaved.gauge["m1"]
    /\ "m1" \in DOMAIN fstore.counter \cap DOMAIN fsaved.counter
    /\ fstore.counter["m1"] = 7
    /\ fsaved.counter["m1"] = -3
    /\ frestored.counter["m1"] = 1
    /\ frestored.gauge["m1"] = fsaved.gauge["m1"]

====
